---- MODULE Spec2Model ----
(***************************************************************************)
(* A model of the @stacks/codegen generator: the contract-hooks emitter    *)
(* (src/src/generators/hooks.ts), the generate command                     *)
(* (src/src/commands/generate.ts) and, where the repository's sources do   *)
(* not contain the emitter (generators/contract, plugins/actions), the     *)
(* emitter as spec.md and the tests describe it.                           *)
(*                                                                         *)
(* Strings whose characters matter (identifiers, buffer payloads) are      *)
(* sequences of one-character strings, so that toCamelCase, capitalize     *)
(* and startsWith are computed.  A fixed prefix that is emitted verbatim   *)
(* ("use", "fetch") is one element of such a sequence.                     *)
(*                                                                         *)
(* Emitted source text is modelled by what it contains: one record per     *)
(* emitted declaration, holding the identifier it declares and the         *)
(* function-name string of its call site.                                  *)
(***************************************************************************)
EXTENDS Integers, Sequences, FiniteSets, TLC

VARIABLES
  contract,     \* the ResolvedContract handed to the emitters
  minimalOut,   \* <<>> or <<block>>: generateContractInterface(.., "minimal")
  fullOut,      \* <<>> or <<block>>: generateContractInterface(.., "full")
  actionsOut,   \* <<>> or <<block>>: generateActionHelpers
  hooksOut,     \* <<>> or <<hooks>>: generateContractHookMethods
  call,         \* the last evaluation of a piece of generated code
  config,       \* the configuration of the generate run
  pc,           \* position of the generate command
  queue,        \* contract sources still to resolve
  nets,         \* networks still to resolve for the current multi-network source
  cur,          \* the multi-network source being resolved
  resolved,     \* resolvedContracts of generate()
  partial,      \* resolvedContracts of the current resolveContracts call
  files,        \* the output files written so far
  warnings,     \* console/spinner warnings issued
  exitCode,     \* process exit status, -1 while running
  input,        \* the argument of the pure function under evaluation
  output,       \* its result, NoOutput before the evaluation
  hookCall,     \* the broadcast in progress: the generated hook and its call data
  prompt,       \* the wallet prompt: "none", "open", "finished" or "cancelled"
  promise,      \* the promise the generated mutation function returned
  isRequestPending,  \* the isRequestPending state of the hook in use
  pluginOptions, \* the options of the hiro plugin
  userConfig,   \* the configuration handed to transformConfig
  pending,      \* contract IDs transformConfig has still to fetch
  fetchedContracts,  \* fetchedContracts of transformConfig
  fetchResults, \* the ContractFetchResult of each fetchContractABI call so far
  returned,     \* what transformConfig returned, NotReturned before
  waiter,       \* useWaitForTransaction: the polls of the mutation in progress
  txStatus,     \* tx_status of the awaited transaction on the chain
  waitPromise,  \* the promise useWaitForTransaction's mutation function returned
  disk,         \* the files of the config directory
  before,       \* the files of the config directory before loadConfig was called
  loaders,      \* the loadConfig invocations and their positions
  moduleCache   \* the module cache import() consults

genVars == <<contract, minimalOut, fullOut, actionsOut, hooksOut>>
runVars == <<call>>
cmdVars == <<config, pc, queue, nets, cur, resolved, partial, files, warnings, exitCode>>
pureVars == <<input, output>>
walletVars == <<hookCall, prompt, promise, isRequestPending>>
pluginVars == <<pluginOptions, userConfig, pending, fetchedContracts, fetchResults, returned>>
pollVars == <<waiter, txStatus, waitPromise>>
loadVars == <<disk, before, loaders, moduleCache>>
auxVars == <<pureVars, walletVars, pluginVars, pollVars, loadVars>>
vars == <<contract, minimalOut, fullOut, actionsOut, hooksOut, call, config, pc,
          queue, nets, cur, resolved, partial, files, warnings, exitCode,
          input, output, hookCall, prompt, promise, isRequestPending,
          pluginOptions, userConfig, pending, fetchedContracts, fetchResults, returned,
          waiter, txStatus, waitPromise, disk, before, loaders, moduleCache>>

----------------------------------------------------------------------------
(* Sequence helpers *)

Range(s) == {s[i] : i \in 1..Len(s)}

RECURSIVE SelectAccess(_, _)
\* functions.filter(f => f.access === access)
SelectAccess(fs, access) ==
  IF fs = <<>> THEN <<>>
  ELSE IF Head(fs).access = access
       THEN <<Head(fs)>> \o SelectAccess(Tail(fs), access)
       ELSE SelectAccess(Tail(fs), access)

----------------------------------------------------------------------------
(* Identifier utilities *)

\* The lower-case letters [a-z] that occur in the model's strings
LowerChars ==
  {"a", "b", "c", "d", "e", "f", "g", "i", "m", "n", "o", "p", "s", "t", "v", "x"}

toUpperCase(c) ==
  CASE c = "a" -> "A" [] c = "b" -> "B" [] c = "c" -> "C" [] c = "d" -> "D"
    [] c = "e" -> "E" [] c = "f" -> "F" [] c = "g" -> "G" [] c = "i" -> "I"
    [] c = "m" -> "M" [] c = "n" -> "N" [] c = "o" -> "O" [] c = "p" -> "P"
    [] c = "s" -> "S" [] c = "t" -> "T" [] c = "v" -> "V" [] c = "x" -> "X"
    [] OTHER -> c

RECURSIVE toCamelCase(_)
\* str.replace(/-([a-z])/g, (g) => g[1].toUpperCase()): a left-to-right scan;
\* a hyphen followed by a lower-case letter is replaced, with the letter, by
\* the upper-case letter; every other character is copied.
toCamelCase(str) ==
  IF str = <<>> THEN <<>>
  ELSE IF Head(str) = "-" /\ Len(str) >= 2 /\ str[2] \in LowerChars
       THEN <<toUpperCase(str[2])>> \o toCamelCase(Tail(Tail(str)))
       ELSE <<Head(str)>> \o toCamelCase(Tail(str))

\* str.charAt(0).toUpperCase() + str.slice(1)
capitalize(str) ==
  IF str = <<>> THEN <<>> ELSE <<toUpperCase(Head(str))>> \o Tail(str)

----------------------------------------------------------------------------
(* Clarity type descriptions.  A description is the string form           *)
(* [form |-> "string", key |-> "uint128"], the record form                 *)
(* [form |-> "record", key |-> "buff"], key being the record's one key,    *)
(* or a value that is neither ([form |-> "other"]: null, undefined).  An   *)
(* optional carries the description it wraps in the field `inner`: the     *)
(* record { optional: inner } or the string "optional " + inner.           *)

StrType(s) == [form |-> "string", key |-> s]
RecType(k) == [form |-> "record", key |-> k]
OptType(form, inner) == [form |-> form, key |-> "optional", inner |-> inner]
OtherType(v) == [form |-> "other", key |-> v]

\* The keywords of mapClarityTypeToTS that occur in a type string
\* (String.prototype.includes on the fixed type names of the ABI).
KeywordsIn(s) ==
  CASE s = "uint128"      -> {"uint", "int"}
    [] s = "int128"       -> {"int"}
    [] s = "principal"    -> {"principal"}
    [] s = "bool"         -> {"bool"}
    [] s = "string-ascii" -> {"string", "ascii"}
    [] s = "string-utf8"  -> {"string"}
    [] s = "buff"         -> {"buff"}
    [] s = "response"     -> {"response"}
    [] s = "tuple"        -> {"tuple"}
    [] s = "list"         -> {"list"}
    [] OTHER              -> {}

RECURSIVE Includes(_)
\* The keywords a string-form description contains
Includes(clarityType) ==
  IF clarityType.key = "optional"
  THEN {"optional"} \cup Includes(clarityType.inner)
  ELSE KeywordsIn(clarityType.key)

\* `${innerType} | null`
Nullable(innerType) == innerType \o " | null"

RECURSIVE mapClarityTypeToTS(_)
mapClarityTypeToTS(clarityType) ==
  IF clarityType.form # "string"
  THEN IF clarityType.form # "record" THEN "any"
       ELSE
       CASE clarityType.key \in {"uint", "int"}       -> "bigint"
         [] clarityType.key = "principal"             -> "string"
         [] clarityType.key = "bool"                  -> "boolean"
         [] clarityType.key \in {"string", "ascii"}   -> "string"
         [] clarityType.key = "buff"                  -> "Uint8Array"
         [] clarityType.key = "optional"              ->
              Nullable(mapClarityTypeToTS(clarityType.inner))
         [] clarityType.key \in {"response", "tuple"} -> "any"
         [] clarityType.key = "list"                  -> "any[]"
         [] OTHER                                     -> "any"
  ELSE LET has(k) == k \in Includes(clarityType) IN
       CASE has("uint") \/ has("int")      -> "bigint"
         [] has("principal")               -> "string"
         [] has("bool")                    -> "boolean"
         [] has("string") \/ has("ascii")  -> "string"
         [] has("buff")                    -> "Uint8Array"
         [] has("optional")                ->
              Nullable(mapClarityTypeToTS(clarityType.inner))
         [] has("response") \/ has("tuple") -> "any"
         [] has("list")                    -> "any[]"
         [] OTHER                          -> "any"

----------------------------------------------------------------------------
(* The contracts under generation *)

\* Number of functions of the ABI pool a contract may declare
MaxFns == 3

Arg(n, t) == [name |-> n, type |-> t]

\* The function signatures contracts are drawn from: kebab-case names with
\* pairwise distinct camelCase forms, with zero, one and several arguments.
FnPool ==
  << [name |-> <<"g", "-", "a">>,
      args |-> <<Arg(<<"i", "-", "d">>, StrType("uint128"))>>],
     [name |-> <<"t">>,
      args |-> <<Arg(<<"a">>, StrType("uint128")),
                 Arg(<<"t", "-", "o">>, StrType("principal")),
                 Arg(<<"m">>, RecType("buff"))>>],
     [name |-> <<"s", "-", "b", "-", "c">>, args |-> <<>>],
     [name |-> <<"m", "-", "x">>, args |-> <<Arg(<<"p">>, StrType("bool"))>>],
     [name |-> <<"p">>, args |-> <<Arg(<<"x", "-", "s">>, StrType("string-ascii"))>>] >>

Access == {"public", "read-only", "private"}

PoolSize == IF MaxFns < Len(FnPool) THEN MaxFns ELSE Len(FnPool)

RECURSIVE FunctionsOf(_, _)
\* The functions of a contract that declares pool function i with access
\* pick[i], or not at all when pick[i] = "absent"; declaration order is pool order.
FunctionsOf(pick, i) ==
  IF i > PoolSize THEN <<>>
  ELSE IF pick[i] = "absent" THEN FunctionsOf(pick, i + 1)
       ELSE <<[name |-> FnPool[i].name, access |-> pick[i], args |-> FnPool[i].args]>>
            \o FunctionsOf(pick, i + 1)

Contracts ==
  { [name |-> <<"d", "a", "o">>, address |-> "SP123", contractName |-> "dao",
     functions |-> FunctionsOf(pick, 1)] :
      pick \in [1..PoolSize -> Access \cup {"absent"}] }

----------------------------------------------------------------------------
(* Hook Emitter: the contract-specific hooks *)

Emitted(kind, ident, fnName) == [kind |-> kind, ident |-> ident, fnName |-> fnName]

\* use${capitalize(contractName)}${capitalize(toCamelCase(func.name))}
hookName(func, contractName) ==
  <<"use">> \o capitalize(contractName) \o capitalize(toCamelCase(func.name))

\* args.map(arg => `${arg.name}: ${toCamelCase(arg.name)}`): the fields of the
\* object literal handed to the read helper, as <<key, value identifier>>
generateObjectArgs(args) ==
  [i \in 1..Len(args) |-> [key |-> args[i].name, value |-> toCamelCase(args[i].name)]]

\* One test per argument, joined by &&: `!!x` for a string-typed argument,
\* `x !== undefined` for every other.
generateEnabledCondition(args) ==
  [i \in 1..Len(args) |->
     [param |-> toCamelCase(args[i].name),
      test  |-> IF mapClarityTypeToTS(args[i].type) = "string"
                THEN "truthy" ELSE "defined"]]

\* The read hook emitted for a read-only function, mutated: the query key
\* carries the camelCase name.
generateReadHookCamelKey(func, contractName) ==
  [kind       |-> "readHook",
   ident      |-> hookName(func, contractName),
   fnName     |-> toCamelCase(func.name),
   callee     |-> toCamelCase(func.name),
   params     |-> [i \in 1..Len(func.args) |-> toCamelCase(func.args[i].name)],
   objectArgs |-> generateObjectArgs(func.args),
   hasEnabled |-> Len(func.args) > 0,
   enabled    |-> generateEnabledCondition(func.args)]

\* The read hook emitted for a read-only function:
\*   ident       the hook's name
\*   fnName      queryKey[0], '${func.name}'
\*   callee      the method called on ${contractName}.read
\*   params      the hook's parameters, one per argument
\*   objectArgs  the object literal passed to the read helper
\*   hasEnabled  whether an `enabled:` property is emitted (before ...options)
\*   enabled     the emitted condition, to be and-ed with (options?.enabled ?? true)
generateReadHook(func, contractName) ==
  [kind       |-> "readHook",
   ident      |-> hookName(func, contractName),
   fnName     |-> func.name,
   callee     |-> toCamelCase(func.name),
   params     |-> [i \in 1..Len(func.args) |-> toCamelCase(func.args[i].name)],
   objectArgs |-> generateObjectArgs(func.args),
   hasEnabled |-> Len(func.args) > 0,
   enabled    |-> generateEnabledCondition(func.args)]

\* The mutation hook emitted for a public function: it calls
\* ${contractName}.${toCamelCase(func.name)}(args) and embeds no name string.
generateWriteHook(func, contractName) ==
  [kind       |-> "writeHook",
   ident      |-> hookName(func, contractName),
   fnName     |-> <<>>,
   callee     |-> toCamelCase(func.name),
   params     |-> <<>>,
   objectArgs |-> <<>>,
   hasEnabled |-> FALSE,
   enabled    |-> <<>>]

\* generateContractHookMethods, mutated: every function that is not
\* read-only gets a mutation hook.
generateContractHookMethodsNoFilter(c) ==
  LET readOnlyFunctions == SelectAccess(c.functions, "read-only")
      others == SelectSeq(c.functions, LAMBDA f : f.access # "read-only")
  IN  [i \in 1..Len(readOnlyFunctions) |-> generateReadHook(readOnlyFunctions[i], c.name)]
      \o [i \in 1..Len(others) |-> generateWriteHook(others[i], c.name)]

\* generateContractHookMethods, mutated: a contract's hooks are preceded by
\* a heading
generateContractHookMethodsHeading(c) ==
  LET readOnlyFunctions == SelectAccess(c.functions, "read-only")
      publicFunctions   == SelectAccess(c.functions, "public")
  IN  <<[kind |-> "comment", ident |-> c.name, fnName |-> <<>>]>>
      \o [i \in 1..Len(readOnlyFunctions) |-> generateReadHook(readOnlyFunctions[i], c.name)]
      \o [i \in 1..Len(publicFunctions) |-> generateWriteHook(publicFunctions[i], c.name)]

\* The hooks of one contract: read hooks of the read-only functions, then
\* mutation hooks of the public functions.
generateContractHookMethods(c) ==
  LET readOnlyFunctions == SelectAccess(c.functions, "read-only")
      publicFunctions   == SelectAccess(c.functions, "public")
  IN  [i \in 1..Len(readOnlyFunctions) |-> generateReadHook(readOnlyFunctions[i], c.name)]
      \o [i \in 1..Len(publicFunctions) |-> generateWriteHook(publicFunctions[i], c.name)]

----------------------------------------------------------------------------
(* Contract Emitter (generators/contract is not among the sources: modelled *)
(* from spec.md sections 4.3 to 4.5 and 7, and the tests)                  *)

\* The minimal call-object method of one function
generateMethod(func) == Emitted("method", toCamelCase(func.name), func.name)

generateReadHelper(func) == Emitted("readHelper", toCamelCase(func.name), func.name)

generateWriteHelper(func) == Emitted("writeHelper", toCamelCase(func.name), func.name)

\* async fetch${Capitalize(camelCase)}(...)
generateFetchHelper(func) ==
  Emitted("fetchHelper", <<"fetch">> \o capitalize(toCamelCase(func.name)), func.name)

Prop(n) == Emitted("prop", <<n>>, <<>>)
Group(n) == Emitted("group", <<n>>, <<>>)

EmptyBlock == [abi |-> <<>>, top |-> <<>>, read |-> <<>>, write |-> <<>>]

\* generateContract, mutated: the read and write groups are always emitted
\* in full mode.
generateContractAlwaysGroups(c, runtime) ==
  LET readOnlyFunctions == SelectAccess(c.functions, "read-only")
      publicFunctions   == SelectAccess(c.functions, "public")
      callable == SelectSeq(c.functions, LAMBDA f : f.access # "private")
      full == runtime = "full"
  IN  IF callable = <<>> THEN EmptyBlock
      ELSE [abi   |-> [i \in 1..Len(c.functions) |-> c.functions[i].name],
            top   |-> <<Prop("address"), Prop("contractName")>>
                      \o [i \in 1..Len(callable) |-> generateMethod(callable[i])]
                      \o (IF full THEN <<Group("read"), Group("write")>> ELSE <<>>)
                      \o (IF full
                          THEN [i \in 1..Len(publicFunctions) |->
                                  generateFetchHelper(publicFunctions[i])]
                          ELSE <<>>),
            read  |-> IF full
                      THEN [i \in 1..Len(readOnlyFunctions) |->
                              generateReadHelper(readOnlyFunctions[i])]
                      ELSE <<>>,
            write |-> IF full
                      THEN [i \in 1..Len(publicFunctions) |->
                              generateWriteHelper(publicFunctions[i])]
                      ELSE <<>>]

\* generateContract, mutated: full mode emits what minimal mode emits.
generateContractNoHelpers(c, runtime) ==
  LET callable == SelectSeq(c.functions, LAMBDA f : f.access # "private")
  IN  IF callable = <<>> THEN EmptyBlock
      ELSE [abi   |-> [i \in 1..Len(c.functions) |-> c.functions[i].name],
            top   |-> <<Prop("address"), Prop("contractName")>>
                      \o [i \in 1..Len(callable) |-> generateMethod(callable[i])],
            read  |-> <<>>,
            write |-> <<>>]

\* One contract's block of the contracts module:
\*   abi    the function names held by the embedded ABI constant (the full ABI)
\*   top    the top-level members of the exported object, in order
\*   read   the members of the read group
\*   write  the members of the write group
\* A contract with no public or read-only function yields the empty block.
generateContract(c, runtime) ==
  LET readOnlyFunctions == SelectAccess(c.functions, "read-only")
      publicFunctions   == SelectAccess(c.functions, "public")
      callable == SelectSeq(c.functions, LAMBDA f : f.access # "private")
      full == runtime = "full"
  IN  IF callable = <<>> THEN EmptyBlock
      ELSE [abi   |-> [i \in 1..Len(c.functions) |-> c.functions[i].name],
            top   |-> <<Prop("address"), Prop("contractName")>>
                      \o [i \in 1..Len(callable) |-> generateMethod(callable[i])]
                      \o (IF full /\ readOnlyFunctions # <<>> THEN <<Group("read")>> ELSE <<>>)
                      \o (IF full /\ publicFunctions # <<>> THEN <<Group("write")>> ELSE <<>>)
                      \o (IF full
                          THEN [i \in 1..Len(publicFunctions) |->
                                  generateFetchHelper(publicFunctions[i])]
                          ELSE <<>>),
            read  |-> IF full
                      THEN [i \in 1..Len(readOnlyFunctions) |->
                              generateReadHelper(readOnlyFunctions[i])]
                      ELSE <<>>,
            write |-> IF full
                      THEN [i \in 1..Len(publicFunctions) |->
                              generateWriteHelper(publicFunctions[i])]
                      ELSE <<>>]

\* generateActionHelpers(contract, {}): `${name}.read = {..}` when there are
\* read-only functions, `${name}.write = {..}` when there are public ones,
\* the empty string when there are neither.
generateActionHelpers(c) ==
  LET readOnlyFunctions == SelectAccess(c.functions, "read-only")
      publicFunctions   == SelectAccess(c.functions, "public")
  IN  [abi   |-> <<>>,
       top   |-> (IF readOnlyFunctions # <<>> THEN <<Group("read")>> ELSE <<>>)
                 \o (IF publicFunctions # <<>> THEN <<Group("write")>> ELSE <<>>),
       read  |-> [i \in 1..Len(readOnlyFunctions) |->
                    generateReadHelper(readOnlyFunctions[i])],
       write |-> [i \in 1..Len(publicFunctions) |->
                    generateWriteHelper(publicFunctions[i])]]

----------------------------------------------------------------------------
(* Idle values of the state each specification leaves alone *)

NoCall == [op |-> "none"]
NoConfig == [contracts |-> <<>>, network |-> "none", runtime |-> "none",
             hooks |-> [present |-> FALSE, enabled |-> FALSE,
                        contracts |-> FALSE, stacks |-> FALSE]]
NoSource == [kind |-> "none"]
NoInput == [fn |-> "none"]
NoOutput == [kind |-> "none"]
NoHookCall == [hook |-> "none"]
NoPromise == [state |-> "none"]
NoOptions == [contracts |-> <<>>]
NoUserConfig == [out |-> "", hasContracts |-> FALSE, contracts |-> <<>>]
NotReturned == [done |-> FALSE]
NoWaiter == [txId |-> "none"]
NoDisk == [ts |-> "absent", mjs |-> "absent"]

GenIdle ==
  /\ contract = [name |-> <<>>, address |-> "", contractName |-> "", functions |-> <<>>]
  /\ minimalOut = <<>> /\ fullOut = <<>> /\ actionsOut = <<>> /\ hooksOut = <<>>

RunIdle == call = NoCall

CmdIdle ==
  /\ config = NoConfig /\ pc = "idle" /\ queue = <<>> /\ nets = <<>> /\ cur = NoSource
  /\ resolved = <<>> /\ partial = <<>> /\ files = {} /\ warnings = {} /\ exitCode = -1

PureIdle == input = NoInput /\ output = NoOutput

WalletIdle ==
  /\ hookCall = NoHookCall /\ prompt = "none" /\ promise = NoPromise
  /\ isRequestPending = FALSE

PluginIdle ==
  /\ pluginOptions = NoOptions /\ userConfig = NoUserConfig /\ pending = <<>>
  /\ fetchedContracts = <<>> /\ fetchResults = <<>> /\ returned = NotReturned

PollIdle == waiter = NoWaiter /\ txStatus = "none" /\ waitPromise = NoPromise

LoadIdle ==
  /\ disk = NoDisk /\ before = NoDisk /\ loaders = <<>>
  /\ moduleCache = [shared |-> FALSE, module |-> "none"]

AuxIdle == PureIdle /\ WalletIdle /\ PluginIdle /\ PollIdle /\ LoadIdle

----------------------------------------------------------------------------
(* The emitters applied to one contract *)

GenInit == contract \in Contracts
           /\ minimalOut = <<>> /\ fullOut = <<>> /\ actionsOut = <<>> /\ hooksOut = <<>>
           /\ RunIdle /\ CmdIdle /\ AuxIdle

\* generateContractInterface([contract], "minimal")
GenerateMinimal ==
  /\ minimalOut = <<>>
  /\ minimalOut' = <<generateContract(contract, "minimal")>>
  /\ UNCHANGED <<contract, fullOut, actionsOut, hooksOut, runVars, cmdVars, auxVars>>

\* generateContractInterface([contract], "full")
GenerateFull ==
  /\ fullOut = <<>>
  /\ fullOut' = <<generateContract(contract, "full")>>
  /\ UNCHANGED <<contract, minimalOut, actionsOut, hooksOut, runVars, cmdVars, auxVars>>

\* generateActionHelpers(contract, {})
GenerateActions ==
  /\ actionsOut = <<>>
  /\ actionsOut' = <<generateActionHelpers(contract)>>
  /\ UNCHANGED <<contract, minimalOut, fullOut, hooksOut, runVars, cmdVars, auxVars>>

\* generateContractHooks([contract])
GenerateHooks ==
  /\ hooksOut = <<>>
  /\ hooksOut' = <<generateContractHookMethods(contract)>>
  /\ UNCHANGED <<contract, minimalOut, fullOut, actionsOut, runVars, cmdVars, auxVars>>

GenNext == GenerateMinimal \/ GenerateFull \/ GenerateActions \/ GenerateHooks

SpecGen == GenInit /\ [][GenNext]_vars

----------------------------------------------------------------------------
(* What the claims read off the artifacts *)

Members(block) == Range(block.top) \cup Range(block.read) \cup Range(block.write)

\* The blocks of the contracts module and of the action helpers generated so far
Blocks == Range(minimalOut) \cup Range(fullOut) \cup Range(actionsOut)

\* The contract-hooks generated so far
Hooks == UNION {Range(h) : h \in Range(hooksOut)}

FnsWith(access) == {f \in Range(contract.functions) : f.access = access}
Callable == FnsWith("public") \cup FnsWith("read-only")

\* The identifiers an emitter derives from a function's name
DerivedIdents(f) ==
  { toCamelCase(f.name),
    <<"fetch">> \o capitalize(toCamelCase(f.name)),
    hookName(f, contract.name) }

\* The members, helpers and hooks emitted for function f
EmittedFor(f) ==
  { r \in UNION {Members(b) : b \in Blocks} :
      r.fnName = f.name \/ r.ident \in DerivedIdents(f) }
  \cup { h \in Hooks : h.fnName = f.name \/ h.ident \in DerivedIdents(f) }

TopIdents(block) == {r.ident : r \in Range(block.top)}

C2_GroupsIffNonEmpty ==
  \A b \in Range(fullOut) \cup Range(actionsOut) :
    /\ <<"read">> \in TopIdents(b) <=> FnsWith("read-only") # {}
    /\ <<"read">> \in TopIdents(b) <=> b.read # <<>>
    /\ <<"write">> \in TopIdents(b) <=> FnsWith("public") # {}
    /\ <<"write">> \in TopIdents(b) <=> b.write # <<>>
    /\ (\E r \in Range(b.top) : r.kind = "fetchHelper") => FnsWith("public") # {}
    /\ b \in Range(fullOut) /\ FnsWith("public") # {}
         => \E r \in Range(b.top) : r.kind = "fetchHelper"

C2_Witness ==
  /\ fullOut # <<>> /\ actionsOut # <<>>
  /\ FnsWith("read-only") = {} /\ FnsWith("public") # {}
  /\ <<"read">> \notin TopIdents(fullOut[1])
  /\ <<"write">> \in TopIdents(fullOut[1])

\* C3 (as stated): the top-level members of full mode are a strict superset
\* of those of minimal mode, for every contract.
C3_FullStrictSuperset ==
  minimalOut # <<>> /\ fullOut # <<>>
    => /\ TopIdents(minimalOut[1]) \subseteq TopIdents(fullOut[1])
       /\ TopIdents(minimalOut[1]) # TopIdents(fullOut[1])

\* C3 (amended): the top-level members of full mode include those of
\* minimal mode, and strictly so exactly when the contract has at least one
\* public or read-only function.
C3_FullSupersetStrictIffCallable ==
  minimalOut # <<>> /\ fullOut # <<>>
    => /\ TopIdents(minimalOut[1]) \subseteq TopIdents(fullOut[1])
       /\ TopIdents(minimalOut[1]) # TopIdents(fullOut[1]) <=> Callable # {}

C3_Witness ==
  /\ minimalOut # <<>> /\ fullOut # <<>> /\ Callable # {}
  /\ TopIdents(minimalOut[1]) # TopIdents(fullOut[1])

\* C16: for a contract without public and read-only functions (only
\* private ones, or none) the action-helper generator and the contract-hook
\* generator each return the empty string.
C16_EmptyBlockWithoutCallable ==
  Callable = {} =>
    /\ actionsOut # <<>> => actionsOut[1] = EmptyBlock
    /\ hooksOut # <<>> => hooksOut[1] = <<>>

C16_Witness ==
  /\ Callable = {} /\ FnsWith("private") # {}
  /\ actionsOut = <<EmptyBlock>> /\ hooksOut = <<<<>>>>

CallSiteKinds == {"method", "readHelper", "writeHelper", "fetchHelper"}

\* C5: every emitted call site carries the original domain name of a public
\* or read-only function as its function-name string, and the member is
\* named by the camelCase form of that name; every such function has its
\* method, and every read hook keys its query by the domain name.
C5_CallSitesUseDomainName ==
  /\ \A b \in Blocks : \A r \in Members(b) :
       r.kind \in CallSiteKinds =>
         \E f \in Callable :
           /\ r.fnName = f.name
           /\ r.ident = IF r.kind = "fetchHelper"
                        THEN <<"fetch">> \o capitalize(toCamelCase(f.name))
                        ELSE toCamelCase(f.name)
  /\ \A b \in Range(minimalOut) \cup Range(fullOut) : \A f \in Callable :
       \E r \in Range(b.top) :
         r.kind = "method" /\ r.ident = toCamelCase(f.name) /\ r.fnName = f.name
  /\ \A h \in Hooks :
       h.kind = "readHook" =>
         \E f \in FnsWith("read-only") :
           h.fnName = f.name /\ h.callee = toCamelCase(f.name)
  /\ hooksOut # <<>> =>
       \A f \in FnsWith("read-only") : \E h \in Hooks : h.fnName = f.name

C5_Witness ==
  /\ minimalOut # <<>> /\ fullOut # <<>> /\ hooksOut # <<>>
  /\ \E f \in FnsWith("read-only") : toCamelCase(f.name) # f.name
  /\ \E f \in FnsWith("public") : toCamelCase(f.name) # f.name

----------------------------------------------------------------------------
(* Run-time values of the generated code's callers *)

JsVal(t, tag, v) == [t |-> t, tag |-> tag, v |-> v]
Undefined == JsVal("undefined", "", <<>>)
Null      == JsVal("null", "", <<>>)
Bytes(v)  == JsVal("bytes", "", v)          \* a Uint8Array
Str(v)    == JsVal("string", "", v)
BigInt(v) == JsVal("bigint", "", v)
Bool(v)   == JsVal("boolean", "", v)
Tagged(tag, v) == JsVal("tagged", tag, v)   \* an object { type: tag, value: v }
Obj       == JsVal("object", "", <<>>)      \* any other object

\* Length of the buffer and string payloads callers pass
MaxPayload == 2

PayloadChars == {"0", "x", "f"}

RECURSIVE SeqsUpTo(_, _)
SeqsUpTo(S, n) ==
  IF n = 0 THEN {<<>>}
  ELSE LET shorter == SeqsUpTo(S, n - 1)
       IN  shorter \cup {Append(q, c) : q \in shorter, c \in S}

Payloads == SeqsUpTo(PayloadChars, MaxPayload)

\* value.startsWith(prefix)
startsWith(value, prefix) ==
  Len(value) >= Len(prefix) /\ SubSeq(value, 1, Len(prefix)) = prefix

\* What a caller may hand to a buffer-typed parameter, well-typed or not
BufferInputs ==
  {Bytes(v) : v \in Payloads} \cup {Str(v) : v \in Payloads}
  \cup {Tagged(tag, v) : tag \in {"ascii", "utf8", "hex", "base64"}, v \in Payloads}
  \cup {Undefined, Null, Obj, BigInt(<<"0">>), Bool(<<"t">>)}

\* Truthiness (!!x)
Truthy(x) ==
  CASE x.t \in {"undefined", "null"} -> FALSE
    [] x.t = "string"  -> x.v # <<>>
    [] x.t = "bigint"  -> x.v # <<"0">>
    [] x.t = "boolean" -> x.v = <<"t">>
    [] OTHER -> TRUE

----------------------------------------------------------------------------
(* Type Mapper of the contracts module (spec.md section 4.1; not among the *)
(* sources)                                                                *)

Wire(cl, of) == [outcome |-> "ok", cl |-> cl, of |-> of]
Thrown(msg, of) == [outcome |-> "error", cl |-> msg, of |-> of]

\* bufferToWire, mutated: a string is always ASCII-encoded and what is not
\* classified is encoded instead of rejected.
bufferToWireNoDispatch(value) ==
  IF value.t = "bytes" THEN Wire("buffer", value.v)
  ELSE IF value.t = "string" THEN Wire("bufferFromAscii", value.v)
  ELSE Wire("bufferFromAscii", value.v)

\* The conversion emitted inline for a buffer-typed argument: raw bytes as
\* they are; a string hex-decoded when it starts with 0x, else ASCII; the
\* tagged variant by its tag; anything else throws `Invalid buffer value`.
bufferToWire(value) ==
  IF value.t = "bytes" THEN Wire("buffer", value.v)
  ELSE IF value.t = "string"
       THEN IF startsWith(value.v, <<"0", "x">>)
            THEN Wire("bufferFromHex", value.v)
            ELSE Wire("bufferFromAscii", value.v)
  ELSE IF value.t = "tagged" /\ value.tag = "ascii" THEN Wire("bufferFromAscii", value.v)
  ELSE IF value.t = "tagged" /\ value.tag = "utf8" THEN Wire("bufferFromUtf8", value.v)
  ELSE IF value.t = "tagged" /\ value.tag = "hex" THEN Wire("bufferFromHex", value.v)
  ELSE Thrown("Invalid buffer value", value)

\* The ClarityType variant a description denotes
TypeKind(type) ==
  IF type.form = "record" /\ type.key = "buff" THEN "buffer" ELSE type.key

\* mapToWireExpr: the wire constructor applied to the value of one argument
mapToWireExpr(type, value) ==
  LET k == TypeKind(type) IN
  CASE k = "uint128"      -> Wire("uint", value)
    [] k = "int128"       -> Wire("int", value)
    [] k = "bool"         -> Wire("bool", value)
    [] k = "principal"    -> Wire("standardPrincipal", value)
    [] k = "string-ascii" -> Wire("stringAscii", value)
    [] k = "string-utf8"  -> Wire("stringUtf8", value)
    [] k = "buffer"       -> bufferToWire(value)
    [] OTHER              -> Wire("passthrough", value)

----------------------------------------------------------------------------
(* Argument/Signature Synthesizer and Function-Body Emitter at run time     *)
(* (spec.md sections 4.3 and 4.4; not among the sources)                   *)

\* obj[key], undefined when the object has no such field
Field(obj, key) == IF key \in DOMAIN obj THEN obj[key] ELSE Undefined

\* The single-object form of a call: one camelCased field per argument
ObjectForm(func, values) ==
  [k \in {toCamelCase(func.args[i].name) : i \in 1..Len(func.args)} |->
     values[CHOOSE i \in 1..Len(func.args) : toCamelCase(func.args[i].name) = k]]

\* invokeMethod, mutated: the object form's fields are read by the domain
\* (kebab-case) names of the arguments.
invokeMethodDomainFields(func, form, args) ==
  LET values == IF form = "object"
                THEN [i \in 1..Len(func.args) |-> Field(args[1], func.args[i].name)]
                ELSE args
  IN  [functionName |-> func.name,
       functionArgs |-> [i \in 1..Len(func.args) |->
                           mapToWireExpr(func.args[i].type, values[i])]]

\* The generated method called with `args`, which the union signature types
\* as <<object>> (form "object") or as the positional tuple: the object's
\* fields are read by the camelCase argument names, in declaration order,
\* and each value is converted by mapToWireExpr.
invokeMethod(func, form, args) ==
  LET values == IF form = "object"
                THEN [i \in 1..Len(func.args) |->
                        Field(args[1], toCamelCase(func.args[i].name))]
                ELSE args
  IN  [functionName |-> func.name,
       functionArgs |-> [i \in 1..Len(func.args) |->
                           mapToWireExpr(func.args[i].type, values[i])]]

\* The options bag of a write helper: senderKey, and the optional keys the
\* caller chose to set ("absent" when not set)
WriteOptions ==
  [senderKey : {"key"}, network : {"absent", "testnet"}, fee : {"absent", "10"},
   validateWithAbi : {"absent", "true", "false"}]

\* invokeWriteHelper, mutated: the caller's options are spread over the
\* helper's own properties.
invokeWriteHelperSpreadLast(func, args, options) ==
  [functionName    |-> func.name,
   functionArgs    |-> invokeMethod(func, "object", <<args>>).functionArgs,
   senderKey       |-> options.senderKey,
   network         |-> IF options.network = "absent" THEN "mainnet" ELSE options.network,
   fee             |-> options.fee,
   validateWithAbi |-> IF options.validateWithAbi = "absent"
                       THEN "true" ELSE options.validateWithAbi]

\* The object the write helper hands to makeContractCall
invokeWriteHelper(func, args, options) ==
  [functionName    |-> func.name,
   functionArgs    |-> invokeMethod(func, "object", <<args>>).functionArgs,
   senderKey       |-> options.senderKey,
   network         |-> IF options.network = "absent" THEN "mainnet" ELSE options.network,
   fee             |-> options.fee,
   validateWithAbi |-> "true"]

----------------------------------------------------------------------------
(* The generated read hook at run time *)

\* The options a caller may pass to a read hook: none, {} or { enabled: .. }
HookOptions ==
  { [defined |-> FALSE, hasEnabled |-> FALSE, enabled |-> "undefined"],
    [defined |-> TRUE, hasEnabled |-> FALSE, enabled |-> "undefined"] }
  \cup { [defined |-> TRUE, hasEnabled |-> TRUE, enabled |-> e] :
           e \in {"true", "false", "undefined"} }

\* The emitted condition evaluated on the hook's arguments
EnabledCondition(hook, values) ==
  \A i \in 1..Len(hook.enabled) :
    IF hook.enabled[i].test = "truthy"
    THEN Truthy(values[i])
    ELSE values[i] # Undefined

\* The `enabled` property of the object literal handed to useQuery:
\*   enabled: <condition> && (options?.enabled ?? true),   (when emitted)
\*   ...options
\* A later property of an object literal replaces an earlier one of the
\* same key, so an own `enabled` of options replaces the emitted one.
queryEnabled(hook, values, options) ==
  LET optEnabled == IF options.hasEnabled /\ options.enabled # "undefined"
                    THEN options.enabled ELSE "true"
      emitted == IF ~hook.hasEnabled THEN "absent"
                 ELSE IF EnabledCondition(hook, values) THEN optEnabled ELSE "false"
  IN  IF options.defined /\ options.hasEnabled THEN options.enabled ELSE emitted

\* The object literal `{ ${generateObjectArgs(func.args)} }` passed to the
\* read helper, as the set of its <<key, value>> fields
helperArgs(hook, values) ==
  { <<hook.objectArgs[i].key,
      values[CHOOSE j \in 1..Len(hook.params) : hook.params[j] = hook.objectArgs[i].value]>> :
      i \in 1..Len(hook.objectArgs) }

----------------------------------------------------------------------------
(* Evaluations of the generated code: each behaviour is one evaluation, *)
(* on inputs of its choice                                              *)

\* What a caller may pass for an argument of a type
ValuesFor(type) ==
  LET k == TypeKind(type) IN
  CASE k \in {"uint128", "int128"} -> {Undefined, BigInt(<<"0">>), BigInt(<<"1">>)}
    [] k = "bool" -> {Undefined, Bool(<<"t">>), Bool(<<"f">>)}
    [] k \in {"principal", "string-ascii", "string-utf8"} ->
         {Undefined, Str(<<>>), Str(<<"x">>)}
    [] k = "buffer" -> BufferInputs
    [] OTHER -> {Undefined, Obj}

RECURSIVE ArgTuples(_)
\* The argument tuples of a parameter list
ArgTuples(args) ==
  IF args = <<>> THEN {<<>>}
  ELSE {<<v>> \o rest : v \in ValuesFor(Head(args).type), rest \in ArgTuples(Tail(args))}

PoolFn(i, access) == [name |-> FnPool[i].name, access |-> access, args |-> FnPool[i].args]

RunInit == call = NoCall /\ GenIdle /\ CmdIdle /\ AuxIdle

\* A generated method is called in its object form and in its positional form
CallMethod ==
  \E i \in 1..PoolSize, access \in {"public", "read-only"} :
    LET func == PoolFn(i, access) IN
    /\ call = NoCall
    /\ func.args # <<>>
    /\ \E values \in ArgTuples(func.args) :
         call' = [op |-> "method", func |-> func, values |-> values,
                  viaObject     |-> invokeMethod(func, "object", <<ObjectForm(func, values)>>),
                  viaPositional |-> invokeMethod(func, "positional", values)]
    /\ UNCHANGED <<genVars, cmdVars, auxVars>>

\* A generated write helper is called with an options bag
CallWriteHelper ==
  \E i \in 1..PoolSize, options \in WriteOptions :
    LET func == PoolFn(i, "public") IN
    \E values \in ArgTuples(func.args) :
      /\ call = NoCall
      /\ call' = [op |-> "write", func |-> func, values |-> values, options |-> options,
                  result |-> invokeWriteHelper(func, ObjectForm(func, values), options)]
      /\ UNCHANGED <<genVars, cmdVars, auxVars>>

\* The conversion emitted for a buffer-typed argument is evaluated
ConvertBuffer ==
  \E value \in BufferInputs :
    /\ call = NoCall
    /\ call' = [op |-> "buffer", input |-> value, result |-> bufferToWire(value)]
    /\ UNCHANGED <<genVars, cmdVars, auxVars>>

\* A generated read hook is rendered
UseReadHook ==
  \E i \in 1..PoolSize, options \in HookOptions :
    LET func == PoolFn(i, "read-only")
        hook == generateReadHook(func, <<"d", "a", "o">>)
    IN  \E values \in ArgTuples(func.args) :
          /\ call = NoCall
          /\ call' = [op |-> "readHook", func |-> func, values |-> values,
                      options |-> options,
                      queryKey |-> <<hook.fnName, values>>,
                      helperArgs |-> helperArgs(hook, values),
                      enabled |-> queryEnabled(hook, values, options)]
          /\ UNCHANGED <<genVars, cmdVars, auxVars>>

RunNext == CallMethod \/ CallWriteHelper \/ ConvertBuffer \/ UseReadHook

SpecRun == RunInit /\ [][RunNext]_vars

C7_BufferDispatch ==
  call.op = "buffer" =>
    LET v == call.input
        r == call.result
        tagEncoder == [ascii |-> "bufferFromAscii", utf8 |-> "bufferFromUtf8",
                       hex |-> "bufferFromHex"]
    IN  /\ v.t = "bytes" => r = Wire("buffer", v.v)
        /\ v.t = "string" /\ startsWith(v.v, <<"0", "x">>) => r = Wire("bufferFromHex", v.v)
        /\ v.t = "string" /\ ~startsWith(v.v, <<"0", "x">>)
             => r = Wire("bufferFromAscii", v.v)
        /\ v.t = "tagged" /\ v.tag \in DOMAIN tagEncoder => r = Wire(tagEncoder[v.tag], v.v)
        /\ ~(v.t \in {"bytes", "string"} \/ (v.t = "tagged" /\ v.tag \in DOMAIN tagEncoder))
             => r.outcome = "error" /\ r.of = v

C7_Witness ==
  /\ call.op = "buffer"
  /\ call.input.t = "tagged" /\ call.input.tag = "base64"
  /\ call.result.outcome = "error"

\* C8 (as stated): for a read-only function with arguments, the enabled
\* value handed to the query is false whenever an argument is undefined,
\* whatever the options; it is true only when all arguments are defined
\* and the caller has not disabled the query.
C8_EnabledFalseUntilArgsDefined ==
  call.op = "readHook" /\ call.func.args # <<>> =>
    /\ (\E i \in 1..Len(call.values) : call.values[i] = Undefined)
         => call.enabled = "false"
    /\ call.enabled = "true"
         => /\ \A i \in 1..Len(call.values) : call.values[i] # Undefined
            /\ ~(call.options.hasEnabled /\ call.options.enabled = "false")

\* C19 (as stated): the object a read hook passes to the read helper has
\* exactly one field per argument, keyed by the camelCase form of the
\* argument's name.
C19_HelperArgsKeyedByCamelCase ==
  call.op = "readHook" =>
    /\ {field[1] : field \in call.helperArgs}
         = {toCamelCase(call.func.args[i].name) : i \in 1..Len(call.func.args)}
    /\ Cardinality(call.helperArgs) = Len(call.func.args)

----------------------------------------------------------------------------
(* The generate command: configuration *)

NetworkNames == {"mainnet", "testnet", "devnet"}

\* The characters of a network name
NetChars(n) ==
  CASE n = "mainnet" -> <<"m", "a", "i", "n", "n", "e", "t">>
    [] n = "testnet" -> <<"t", "e", "s", "t", "n", "e", "t">>
    [] n = "devnet"  -> <<"d", "e", "v", "n", "e", "t">>

\* A contract identifier `address.contractName`; NoId is an absent or empty one
Id(address, contractName) == [address |-> address, contractName |-> contractName]
NoId == Id("", <<>>)

\* The contract deployed on each network
IdOn(n) ==
  CASE n = "mainnet" -> Id("SP1", <<"d", "a", "o">>)
    [] n = "testnet" -> Id("ST1", <<"d", "-", "t">>)
    [] n = "devnet"  -> Id("ST2", <<"2", "-", "d">>)

\* A ContractSource: `kind` tells which of its fields are set,
\*   "single"  address is the string `id`
\*   "multi"   address is the object `addrs`, a sequence of <<network, id>> in key order
\*   "local"   source is the file `file` (its basename); address is absent
\*             (id = NoId) or the string `id`
\* and `name` is <<>> when the source gives no name.
Source(kind, name, file, id, addrs) ==
  [kind |-> kind, name |-> name, file |-> file, id |-> id, addrs |-> addrs]

RECURSIVE InjectiveSeqs(_, _)
\* The sequences of at most n distinct elements of S
InjectiveSeqs(S, n) ==
  IF n = 0 \/ S = {} THEN {<<>>}
  ELSE {<<>>} \cup UNION {{<<x>> \o q : q \in InjectiveSeqs(S \ {x}, n - 1)} : x \in S}

\* The address objects: any keys in any order, each with its network's
\* contract identifier or without one
AddressMaps ==
  UNION { { [i \in 1..Len(keys) |-> <<keys[i], IF keys[i] \in have THEN IdOn(keys[i]) ELSE NoId>>] :
              have \in SUBSET Range(keys) } :
          keys \in InjectiveSeqs(NetworkNames, Cardinality(NetworkNames)) }

SourceNames == {<<>>, <<"d", "a", "o">>}

MultiSources == {Source("multi", n, <<>>, NoId, m) : n \in SourceNames, m \in AddressMaps}

SingleSources ==
  {Source("single", n, <<>>, IdOn(net), <<>>) : n \in SourceNames, net \in {"mainnet", "testnet"}}
  \cup {Source("local", n, <<"2", "-", "a">>, id, <<>>) :
          n \in SourceNames, id \in {NoId, Id("ST3", <<>>), IdOn("devnet")}}

HooksConfigs ==
  { [present |-> FALSE, enabled |-> FALSE, contracts |-> FALSE, stacks |-> FALSE] }
  \cup [present : {TRUE}, enabled : BOOLEAN, contracts : BOOLEAN, stacks : BOOLEAN]

\* Number of contract sources of a configuration
MaxSources == 2

RECURSIVE SeqsOfLen(_, _)
SeqsOfLen(S, n) ==
  IF n = 0 THEN {<<>>} ELSE {<<x>> \o q : x \in S, q \in SeqsOfLen(S, n - 1)}

\* The sources of the whole-command configurations
CmdSources ==
  { Source("single", <<>>, <<>>, IdOn("testnet"), <<>>),
    Source("multi", <<"d", "a", "o">>, <<>>, NoId,
           <<<<"mainnet", IdOn("mainnet")>>, <<"testnet", IdOn("testnet")>>>>),
    Source("multi", <<>>, <<>>, NoId,
           <<<<"devnet", NoId>>, <<"testnet", IdOn("testnet")>>>>),
    Source("local", <<>>, <<"d", "-", "t">>, NoId, <<>>) }

----------------------------------------------------------------------------
(* The generate command: contract resolution *)

\* contractName.replace(/-/g, "_").replace(/^\d/, "_$&")
sanitize(str) ==
  LET under == [i \in 1..Len(str) |-> IF str[i] = "-" THEN "_" ELSE str[i]]
  IN  IF under # <<>> /\ under[1] \in {"0", "1", "2", "3", "4", "5", "6", "7", "8", "9"}
      THEN <<"_">> \o under ELSE under

\* source.address[network]
AddressOn(source, network) ==
  IF \E i \in 1..Len(source.addrs) : source.addrs[i][1] = network
  THEN source.addrs[CHOOSE i \in 1..Len(source.addrs) : source.addrs[i][1] = network][2]
  ELSE NoId

\* networksToGenerate, mutated: the configured network is ignored
networksToGenerateAllKeys(source, defaultNetwork) ==
  [i \in 1..Len(source.addrs) |-> source.addrs[i][1]]

\* The networks resolveContracts walks for a multi-network source: the
\* configured network if the source has an address on it, else every key of
\* the address object
networksToGenerate(source, defaultNetwork) ==
  IF defaultNetwork # "none"
  THEN IF AddressOn(source, defaultNetwork) # NoId THEN <<defaultNetwork>> ELSE <<>>
  ELSE [i \in 1..Len(source.addrs) |-> source.addrs[i][1]]

\* variantName, mutated: the base name is appended as it is
variantNameNoCapitalize(source, network, contractId) ==
  LET baseName == IF source.name # <<>> THEN source.name
                  ELSE sanitize(contractId.contractName)
  IN  IF network = "mainnet" THEN baseName
      ELSE NetChars(network) \o baseName

\* The name of a multi-network source's variant on a network
variantName(source, network, contractId) ==
  LET baseName == IF source.name # <<>> THEN source.name
                  ELSE sanitize(contractId.contractName)
  IN  IF network = "mainnet" THEN baseName
      ELSE NetChars(network) \o capitalize(baseName)

Resolved(name, address, contractName, from) ==
  [name |-> name, address |-> address, contractName |-> contractName, source |-> from]

\* resolveContract for a single-network source, once its ABI is at hand
resolveContract(source) ==
  IF source.kind = "local"
  THEN LET name == IF source.name # <<>> THEN source.name ELSE sanitize(source.file)
           address == IF source.id # NoId THEN source.id
                      ELSE Id("ST1PQHQKV0RJXZFY1DGX8MNSNYVE3VGZJSRTPGZGM", <<>>)
       IN  Resolved(name, address.address,
                    IF address.contractName # <<>> THEN address.contractName ELSE name,
                    "local")
  ELSE Resolved(IF source.name # <<>> THEN source.name
                ELSE sanitize(source.id.contractName),
                source.id.address, source.id.contractName, "api")

\* resolveContracts, single-network source: resolveContract succeeds
ResolveSingle ==
  /\ pc = "resolve" /\ queue # <<>> /\ Head(queue).kind # "multi"
  /\ resolved' = Append(resolved, resolveContract(Head(queue)))
  /\ queue' = Tail(queue)
  /\ UNCHANGED <<config, pc, nets, cur, partial, files, warnings, exitCode,
               genVars, runVars, auxVars>>

\* ResolveSingleFails, mutated: the failure is reported and the source is
\* skipped, as for one network of a multi-network source
ResolveSingleFailsSkips ==
  /\ pc = "resolve" /\ queue # <<>> /\ Head(queue).kind # "multi"
  /\ warnings' = warnings \cup {<<"Failed to resolve contract", "Generation failed">>}
  /\ queue' = Tail(queue)
  /\ UNCHANGED <<config, pc, nets, cur, resolved, partial, files, exitCode,
               genVars, runVars, auxVars>>

\* resolveContracts, single-network source: the fetch or the parse throws;
\* generate() reports it, rethrows, reports again and exits with status 1
ResolveSingleFails ==
  /\ pc = "resolve" /\ queue # <<>> /\ Head(queue).kind # "multi"
  /\ warnings' = warnings \cup {<<"Failed to resolve contract", "Generation failed">>}
  /\ pc' = "failed" /\ exitCode' = 1
  /\ UNCHANGED <<config, queue, nets, cur, resolved, partial, files,
               genVars, runVars, auxVars>>

\* resolveContracts, multi-network source: the networks to walk are chosen
BeginMulti ==
  /\ pc = "resolve" /\ queue # <<>> /\ Head(queue).kind = "multi"
  /\ cur' = Head(queue)
  /\ nets' = networksToGenerate(Head(queue), config.network)
  /\ partial' = <<>>
  /\ pc' = "multi"
  /\ UNCHANGED <<config, queue, resolved, files, warnings, exitCode,
               genVars, runVars, auxVars>>

\* SkipNetwork, mutated: a network without an address is an error
SkipNetworkThrows ==
  /\ pc = "multi" /\ nets # <<>> /\ AddressOn(cur, Head(nets)) = NoId
  /\ pc' = "failed" /\ exitCode' = 1
  /\ UNCHANGED <<config, queue, nets, cur, resolved, partial, files, warnings,
               genVars, runVars, auxVars>>

\* One iteration of the loop: `if (!contractId) continue`
SkipNetwork ==
  /\ pc = "multi" /\ nets # <<>> /\ AddressOn(cur, Head(nets)) = NoId
  /\ nets' = Tail(nets)
  /\ UNCHANGED <<config, pc, queue, cur, resolved, partial, files, warnings, exitCode,
               genVars, runVars, auxVars>>

\* One iteration of the loop: the contract is fetched and its variant pushed
ResolveNetwork ==
  /\ pc = "multi" /\ nets # <<>> /\ AddressOn(cur, Head(nets)) # NoId
  /\ LET network == Head(nets)
         contractId == AddressOn(cur, network)
     IN  partial' = Append(partial,
                           Resolved(variantName(cur, network, contractId),
                                    contractId.address, contractId.contractName, "api"))
  /\ nets' = Tail(nets)
  /\ UNCHANGED <<config, pc, queue, cur, resolved, files, warnings, exitCode,
               genVars, runVars, auxVars>>

\* One iteration of the loop: the fetch throws; the catch warns and the loop
\* goes on
ResolveNetworkFails ==
  /\ pc = "multi" /\ nets # <<>> /\ AddressOn(cur, Head(nets)) # NoId
  /\ warnings' = warnings \cup {<<"Failed to resolve contract for", Head(nets)>>}
  /\ nets' = Tail(nets)
  /\ UNCHANGED <<config, pc, queue, cur, resolved, partial, files, exitCode,
               genVars, runVars, auxVars>>

\* resolveContracts returns; generate() pushes the variants
EndMulti ==
  /\ pc = "multi" /\ nets = <<>>
  /\ resolved' = resolved \o partial
  /\ queue' = Tail(queue)
  /\ pc' = "resolve"
  /\ UNCHANGED <<config, nets, cur, partial, files, warnings, exitCode,
               genVars, runVars, auxVars>>

\* Every source is resolved: spinner.succeed(`Resolved n contracts`)
FinishResolve ==
  /\ pc = "resolve" /\ queue = <<>>
  /\ pc' = "generate"
  /\ UNCHANGED <<config, queue, nets, cur, resolved, partial, files, warnings, exitCode,
               genVars, runVars, auxVars>>

ResolveNext ==
  \/ ResolveSingle \/ ResolveSingleFails \/ BeginMulti \/ SkipNetwork
  \/ ResolveNetwork \/ ResolveNetworkFails \/ EndMulti \/ FinishResolve

\* Resolution of one contract source under each configured network
ResolveInit ==
  /\ config \in [contracts : {<<s>> : s \in MultiSources \cup SingleSources},
                 network : NetworkNames \cup {"none"},
                 runtime : {"minimal"},
                 hooks : {[present |-> FALSE, enabled |-> FALSE,
                           contracts |-> FALSE, stacks |-> FALSE]}]
  /\ pc = "resolve" /\ queue = config.contracts /\ nets = <<>> /\ cur = NoSource
  /\ resolved = <<>> /\ partial = <<>> /\ files = {} /\ warnings = {} /\ exitCode = -1
  /\ GenIdle /\ RunIdle /\ AuxIdle

SpecResolve == ResolveInit /\ [][ResolveNext]_vars


\* The call of resolveContracts on a multi-network source has returned
MultiReturned == cur.kind = "multi" /\ pc \in {"resolve", "generate"}

\* The networks resolveContracts set out to generate for the source
Targets == Range(networksToGenerate(cur, config.network))

\* The variants emitted under the name of network n's variant
VariantsOn(n) ==
  {i \in 1..Len(partial) : partial[i].name = variantName(cur, n, AddressOn(cur, n))}

FetchFailed(n) == <<"Failed to resolve contract for", n>> \in warnings

\* C10 (as stated): exactly one variant is emitted for each network being
\* generated; a target network without a configured address is skipped,
\* no error is raised.
C10_ExactlyOneVariantPerNetwork ==
  /\ cur.kind = "multi" => pc # "failed" /\ exitCode = -1
  /\ MultiReturned =>
       \A n \in NetworkNames :
         Cardinality(VariantsOn(n))
           = IF n \in Targets /\ AddressOn(cur, n) # NoId THEN 1 ELSE 0

\* C10 (amended): at most one variant is emitted for each network being
\* generated: exactly one, built from that network's address alone, when
\* the network has a configured address and its fetch succeeds, and none
\* when the fetch fails (a warning, no error); a target network without a
\* configured address is skipped without an error and without a warning.
C10_OneVariantPerResolvedNetwork ==
  /\ cur.kind = "multi" => pc # "failed" /\ exitCode = -1
  /\ MultiReturned =>
       /\ \A n \in NetworkNames :
            LET target == n \in Targets /\ AddressOn(cur, n) # NoId
                contractId == AddressOn(cur, n)
            IN  /\ Cardinality(VariantsOn(n)) = IF target /\ ~FetchFailed(n) THEN 1 ELSE 0
                /\ FetchFailed(n) => target
                /\ \A i \in VariantsOn(n) :
                     partial[i] = Resolved(variantName(cur, n, contractId),
                                           contractId.address, contractId.contractName, "api")
       /\ Len(partial)
            = Cardinality({n \in Targets : AddressOn(cur, n) # NoId /\ ~FetchFailed(n)})

C10_Witness ==
  /\ MultiReturned
  /\ config.network = "none"
  /\ \E n \in Targets : AddressOn(cur, n) = NoId
  /\ \E n \in Targets : FetchFailed(n)
  /\ Len(partial) >= 1

\* The network a variant was fetched from: each network's contract lives at
\* its own address
NetworkOf(variant) == CHOOSE n \in NetworkNames : IdOn(n).address = variant.address

\* The networks of the variants resolveContracts returned, in their order
EmittedNetworks == [i \in 1..Len(partial) |-> NetworkOf(partial[i])]

\* The keys of the address object, in its order
AddressKeys == [i \in 1..Len(cur.addrs) |-> cur.addrs[i][1]]

\* `source.name || contractName.replace(...)` of the variant's contract
BaseNameOf(variant) ==
  IF cur.name # <<>> THEN cur.name ELSE sanitize(variant.contractName)

\* The upper-case form of the characters base names start with
UpperOf(c) ==
  CASE c = "d" -> "D" [] c = "a" -> "A" [] c = "o" -> "O" [] OTHER -> c

\* C11: every emitted variant of a multi-network contract is named with the
\* base name unchanged on mainnet, and on any other network with the
\* network's name followed by the base name, first character upper-cased.
C11_VariantNaming ==
  cur.kind = "multi" =>
    \A i \in 1..Len(partial) :
      LET n == NetworkOf(partial[i])
          baseName == BaseNameOf(partial[i])
      IN  /\ baseName # <<>>
          /\ partial[i].name
               = IF n = "mainnet" THEN baseName
                 ELSE NetChars(n) \o <<UpperOf(Head(baseName))>> \o Tail(baseName)

C11_Witness ==
  /\ MultiReturned
  /\ \E i, j, k \in 1..Len(partial) :
       /\ NetworkOf(partial[i]) = "mainnet"
       /\ NetworkOf(partial[j]) = "testnet"
       /\ NetworkOf(partial[k]) = "devnet"
       /\ partial[j].name = NetChars("testnet") \o <<"D", "_", "t">>

\* C12 (as stated): with a network configured only that network's variant
\* is emitted; with none configured one variant is emitted for every
\* network present in the address map, in the map's order.
C12_VariantPerMapKey ==
  MultiReturned =>
    IF config.network # "none"
    THEN \A i \in 1..Len(EmittedNetworks) : EmittedNetworks[i] = config.network
    ELSE EmittedNetworks = AddressKeys

\* C12 (amended): with a network configured at most that network's variant
\* is emitted, and it is emitted exactly when the map has an address for it
\* and its fetch succeeds; with none configured the variants emitted are
\* those of the map's networks that have an address and whose fetch
\* succeeds, in the map's order.
C12_VariantPerResolvedKey ==
  MultiReturned =>
    LET got(n) == AddressOn(cur, n) # NoId /\ ~FetchFailed(n)
    IN  IF config.network # "none"
        THEN EmittedNetworks = IF got(config.network) THEN <<config.network>> ELSE <<>>
        ELSE EmittedNetworks = SelectSeq(AddressKeys, got)

C12_Witness ==
  /\ MultiReturned
  /\ config.network = "testnet"
  /\ Len(cur.addrs) = 3 /\ \A i \in 1..3 : cur.addrs[i][2] # NoId
  /\ EmittedNetworks = <<"testnet">>

----------------------------------------------------------------------------
(* The generate command: output files *)

\* generateContractInterface(resolvedContracts, runtime || "minimal") is
\* written to config.output.path
WriteContracts ==
  /\ pc = "generate"
  /\ files' = files \cup {"contracts"}
  /\ pc' = "hooks"
  /\ UNCHANGED <<config, queue, nets, cur, resolved, partial, warnings, exitCode,
               genVars, runVars, auxVars>>

\* `if (config.output.hooks?.enabled)` is false: no hooks file
SkipHooks ==
  /\ pc = "hooks" /\ ~(config.hooks.present /\ config.hooks.enabled)
  /\ pc' = "done" /\ exitCode' = 0
  /\ UNCHANGED <<config, queue, nets, cur, resolved, partial, files, warnings,
               genVars, runVars, auxVars>>

\* generateHooksFiles: the provider and the API utilities, the contract
\* hooks when a path is configured and the runtime is full (a warning when
\* it is not), the generic hooks when a path is configured
GenerateHooksFiles ==
  /\ pc = "hooks" /\ config.hooks.present /\ config.hooks.enabled
  /\ files' = files \cup {"provider", "stacks-api"}
        \cup (IF config.hooks.contracts /\ config.runtime = "full"
              THEN {"contract-hooks"} ELSE {})
        \cup (IF config.hooks.stacks THEN {"generic-hooks"} ELSE {})
  /\ warnings' = warnings
        \cup (IF config.hooks.contracts /\ config.runtime # "full"
              THEN {<<"Hooks require runtime: 'full'", "skipping contract hooks generation">>}
              ELSE {})
  /\ pc' = "done" /\ exitCode' = 0
  /\ UNCHANGED <<config, queue, nets, cur, resolved, partial, genVars, runVars, auxVars>>

SourceLists == UNION {SeqsOfLen(CmdSources, n) : n \in 1..MaxSources}

CmdInit ==
  /\ config \in [contracts : SourceLists,
                 network : NetworkNames \cup {"none"},
                 runtime : {"absent", "minimal", "full"},
                 hooks : HooksConfigs]
  /\ pc = "resolve" /\ queue = config.contracts /\ nets = <<>> /\ cur = NoSource
  /\ resolved = <<>> /\ partial = <<>> /\ files = {} /\ warnings = {} /\ exitCode = -1
  /\ GenIdle /\ RunIdle /\ AuxIdle

CmdNext ==
  \/ ResolveSingle \/ ResolveSingleFails \/ BeginMulti \/ SkipNetwork
  \/ ResolveNetwork \/ ResolveNetworkFails \/ EndMulti \/ FinishResolve
  \/ WriteContracts \/ SkipHooks \/ GenerateHooksFiles

SpecCmd == CmdInit /\ [][CmdNext]_vars

\* C9 (as stated): a hooks module, contract or generic, is written only
\* when the runtime mode is full and hook generation is enabled.
C9_HooksOnlyFullAndEnabled ==
  \A f \in {"contract-hooks", "generic-hooks"} :
    f \in files => config.runtime = "full" /\ config.hooks.present /\ config.hooks.enabled

\* C21 (as stated): the resolved contracts handed to generation have
\* pairwise distinct names.
C21_ResolvedNamesDistinct ==
  pc \in {"generate", "hooks", "done"} =>
    \A i, j \in 1..Len(resolved) : resolved[i].name = resolved[j].name => i = j

\* The resolution of a single-network source has failed in this run
SingleFailed == <<"Failed to resolve contract", "Generation failed">> \in warnings

\* C22: once the resolution of a single-network source has failed, the
\* command has stopped with exit status 1 and no output file is written,
\* however many sources were resolved before.
C22_SingleFailureWritesNothing ==
  SingleFailed => pc = "failed" /\ exitCode = 1 /\ files = {}

C22_Witness ==
  SingleFailed /\ pc = "failed" /\ Len(resolved) >= 1 /\ files = {}

----------------------------------------------------------------------------
(* The pure functions of the hook emitter, each applied to one input *)

GENERIC_HOOKS ==
  <<"useAccount", "useConnect", "useDisconnect", "useNetwork", "useContract",
    "useReadContract", "useTransaction", "useBlock", "useAccountTransactions",
    "useWaitForTransaction">>

\* generateGenericHook, mutated: an unknown name yields a stub
generateGenericHookStub(name) == <<name>>

\* The source text generateGenericHook returns, as the hooks it declares:
\* <<>> is the empty string of the default case
generateGenericHook(name) ==
  IF name \in Range(GENERIC_HOOKS) THEN <<name>> ELSE <<>>

RECURSIVE JoinTruthy(_)
\* .filter(Boolean).join("\n\n")
JoinTruthy(texts) ==
  IF texts = <<>> THEN <<>>
  ELSE IF Head(texts) = <<>> THEN JoinTruthy(Tail(texts))
       ELSE Head(texts) \o JoinTruthy(Tail(texts))

\* generateGenericHooks(includeHooks): `given` is false for an undefined
\* includeHooks
generateGenericHooks(given, includeHooks) ==
  LET hooksToGenerate == IF given THEN includeHooks ELSE GENERIC_HOOKS
  IN  JoinTruthy([i \in 1..Len(hooksToGenerate) |-> generateGenericHook(hooksToGenerate[i])])

\* Length of an inclusion list
MaxInclude == 2

\* The names a configuration may list: hooks of the catalog and others
IncludeNames == {"useAccount", "useContract", "useWaitForTransaction", "useBalance", "useaccount"}

IncludeLists == SeqsUpTo(IncludeNames, MaxInclude)

\* Length of a domain identifier
MaxIdent == 3

\* The characters of Clarity identifiers: a lower-case letter, the hyphen,
\* an upper-case letter, a digit
IdentChars == {"a", "-", "A", "2"}

Idents == SeqsUpTo(IdentChars, MaxIdent)

\* Clarity function names: identifiers that start with a letter
ClarityNames == {n \in Idents : n # <<>> /\ Head(n) \in {"a", "A"}}

\* Nesting depth of a type description
MaxDepth == 1

BaseTypes ==
  {StrType(k) : k \in {"uint128", "int128", "bool", "principal", "string-ascii",
                       "string-utf8", "trait_reference"}}
  \cup {RecType(k) : k \in {"buff", "buffer", "string-ascii", "string-utf8",
                             "response", "tuple", "list"}}
  \cup {OtherType(v) : v \in {"null", "undefined"}}

RECURSIVE TypesOfDepth(_)
TypesOfDepth(d) ==
  IF d = 0 THEN BaseTypes
  ELSE LET inner == TypesOfDepth(d - 1)
       IN  inner \cup {OptType("record", t) : t \in inner}
                 \cup {OptType("string", t) : t \in {u \in inner : u.form = "string"}}

\* -- the query function of the generated useAccount --

\* Entries of the wallet's stx_getAddresses answer
MaxAddresses == 2

\* The address of an entry: Stacks mainnet, Stacks testnet, Bitcoin, or an
\* entry without an address field
WalletAddresses == {"SP1", "ST1", "bc1", "undefined"}

NotDefined == [defined |-> FALSE]
Defined(v) == [defined |-> TRUE, value |-> v]

\* What isConnected() and request('stx_getAddresses') do in one run
AccountEnvs ==
  [connected : {"true", "false", "throws"},
   result : {[form |-> "throws"], [form |-> "null"], [form |-> "no addresses"]}
            \cup {[form |-> "addresses", addresses |-> l] :
                    l \in SeqsUpTo(WalletAddresses, MaxAddresses)}]

Disconnected ==
  [address |-> NotDefined, addresses |-> NotDefined, isConnected |-> FALSE,
   isConnecting |-> FALSE, isDisconnected |-> TRUE, status |-> "disconnected"]

\* addr.address.startsWith('SP') || addr.address.startsWith('ST')
IsStx(addr) == addr \in {"SP1", "ST1"}

\* The try block of the query function: the state it returns, or that it
\* threw
useAccountTry(env) ==
  IF env.connected = "throws" THEN [threw |-> TRUE]
  ELSE IF env.connected = "false" THEN [threw |-> FALSE, value |-> Disconnected]
  ELSE IF env.result.form = "throws" THEN [threw |-> TRUE]
  ELSE IF env.result.form \in {"null", "no addresses"} \/ env.result.addresses = <<>>
  THEN [threw |-> FALSE, value |-> Disconnected]
  ELSE IF \E i \in 1..Len(env.result.addresses) : env.result.addresses[i] = "undefined"
  THEN [threw |-> TRUE]
  ELSE LET stxAddresses == SelectSeq(env.result.addresses, IsStx)
       IN  [threw |-> FALSE,
            value |-> [address |-> IF stxAddresses # <<>> THEN Defined(stxAddresses[1])
                                   ELSE NotDefined,
                       addresses |-> Defined(stxAddresses), isConnected |-> TRUE,
                       isConnecting |-> FALSE, isDisconnected |-> FALSE,
                       status |-> "connected"]]

\* queryFn, mutated: the catch block rethrows
useAccountQueryFnRethrows(env) ==
  LET r == useAccountTry(env)
  IN  IF r.threw THEN [kind |-> "rejected"] ELSE [kind |-> "value", value |-> r.value]

\* queryFn of useAccount: the catch block returns the disconnected state
useAccountQueryFn(env) ==
  LET r == useAccountTry(env)
  IN  IF r.threw THEN [kind |-> "value", value |-> Disconnected]
      ELSE [kind |-> "value", value |-> r.value]

\* -- filterByOptions of the plugin utilities --

\* Items handed to filterByOptions
MaxItems == 2

ItemNames == {<<"a">>, <<"b">>, <<"a", "b">>, <<"b", "a">>}

\* options.include and options.exclude: absent, or a list of patterns. "^"
\* anchors a regular expression, "." stands for any character, and "*"
\* alone is not a regular expression
Absent == [present |-> FALSE, patterns |-> <<>>]
PatternLists ==
  {Absent}
  \cup {[present |-> TRUE, patterns |-> l] :
          l \in {<<>>, <<<<"a">>>>, <<<<"^", "b">>>>, <<<<"a", "b">>, <<"^", "a">>>>,
                 <<<<".", "a">>>>, <<<<"*">>>>, <<<<"b">>, <<"*">>>>}}

\* item.name.includes(pattern)
nameIncludes(name, pattern) ==
  \E i \in 0..(Len(name) - Len(pattern)) :
    \A j \in 1..Len(pattern) : name[i + j] = pattern[j]

\* new RegExp(pattern) does not throw
ValidRegExp(pattern) == ~(pattern # <<>> /\ pattern[1] = "*")

RECURSIVE matchAt(_, _, _, _)
\* The regular expression, from its j-th element on, matches name from
\* position i on
matchAt(name, i, pattern, j) ==
  IF j > Len(pattern) THEN TRUE
  ELSE IF pattern[j] = "^" THEN i = 1 /\ matchAt(name, i, pattern, j + 1)
  ELSE /\ i <= Len(name)
       /\ pattern[j] = "." \/ pattern[j] = name[i]
       /\ matchAt(name, i + 1, pattern, j + 1)

\* item.name.match(new RegExp(pattern)) is not null
nameMatches(name, pattern) ==
  \E i \in 1..(Len(name) + 1) : matchAt(name, i, pattern, 1)

\* (pattern) => item.name.includes(pattern) || item.name.match(new RegExp(pattern)):
\* "yes", "no", or "throws" when the pattern is no regular expression
patternTest(name, pattern) ==
  IF nameIncludes(name, pattern) THEN "yes"
  ELSE IF ~ValidRegExp(pattern) THEN "throws"
  ELSE IF nameMatches(name, pattern) THEN "yes" ELSE "no"

RECURSIVE some(_, _)
\* patterns.some(test), which stops at the first pattern that matches
some(name, patterns) ==
  IF patterns = <<>> THEN "no"
  ELSE LET t == patternTest(name, Head(patterns))
       IN  IF t = "no" THEN some(name, Tail(patterns)) ELSE t

\* items.filter(item => some(..)) or, negated, its complement; one test
\* that throws ends the call
filterBySome(items, patterns, keep) ==
  IF \E i \in 1..Len(items) : some(items[i].name, patterns) = "throws"
  THEN [kind |-> "threw"]
  ELSE LET Kept(item) == some(item.name, patterns) = keep
       IN  [kind |-> "value", value |-> SelectSeq(items, Kept)]

\* filterByOptions, mutated: the exclude patterns are skipped when include
\* patterns are given
filterByOptionsIncludeWins(items, include, exclude) ==
  IF include.present /\ include.patterns # <<>>
  THEN filterBySome(items, include.patterns, "yes")
  ELSE IF exclude.present /\ exclude.patterns # <<>>
  THEN filterBySome(items, exclude.patterns, "no")
  ELSE [kind |-> "value", value |-> items]

\* filterByOptions: the include filter, then the exclude filter
filterByOptions(items, include, exclude) ==
  LET included == IF include.present /\ include.patterns # <<>>
                  THEN filterBySome(items, include.patterns, "yes")
                  ELSE [kind |-> "value", value |-> items]
  IN  IF included.kind = "threw" THEN included
      ELSE IF exclude.present /\ exclude.patterns # <<>>
      THEN filterBySome(included.value, exclude.patterns, "no")
      ELSE included

PureInputs ==
  {[fn |-> "generateGenericHooks", given |-> FALSE, includeHooks |-> <<>>]}
  \cup {[fn |-> "useAccount", env |-> e] : e \in AccountEnvs}
  \cup {[fn |-> "filterByOptions", items |-> [i \in 1..Len(l) |-> [name |-> l[i]]],
          include |-> inc, exclude |-> exc] :
          l \in SeqsUpTo(ItemNames, MaxItems), inc \in PatternLists, exc \in PatternLists}
  \cup {[fn |-> "generateGenericHooks", given |-> TRUE, includeHooks |-> l] : l \in IncludeLists}
  \cup {[fn |-> "toCamelCase", str |-> n] : n \in Idents}
  \cup {[fn |-> "mapClarityTypeToTS", clarityType |-> t] : t \in TypesOfDepth(MaxDepth)}
  \cup {[fn |-> "hookName", contractName |-> <<"d", "a", "o">>, names |-> p] :
          p \in {q \in ClarityNames \X ClarityNames : q[1] # q[2]}}

Value(v) == [kind |-> "value", value |-> v]

PureInit ==
  /\ input \in PureInputs /\ output = NoOutput
  /\ GenIdle /\ RunIdle /\ CmdIdle /\ WalletIdle /\ PluginIdle /\ PollIdle /\ LoadIdle

GenerateGenericHooks ==
  /\ input.fn = "generateGenericHooks" /\ output = NoOutput
  /\ output' = Value(generateGenericHooks(input.given, input.includeHooks))
  /\ UNCHANGED <<input, genVars, runVars, cmdVars, walletVars, pluginVars, pollVars, loadVars>>

ToCamelCase ==
  /\ input.fn = "toCamelCase" /\ output = NoOutput
  /\ output' = Value(toCamelCase(input.str))
  /\ UNCHANGED <<input, genVars, runVars, cmdVars, walletVars, pluginVars, pollVars, loadVars>>

MapClarityTypeToTS ==
  /\ input.fn = "mapClarityTypeToTS" /\ output = NoOutput
  /\ output' = Value(mapClarityTypeToTS(input.clarityType))
  /\ UNCHANGED <<input, genVars, runVars, cmdVars, walletVars, pluginVars, pollVars, loadVars>>

\* The names generated for two functions of one contract: the method
\* ${contractName}.${toCamelCase(func.name)} and the hook
NameHooks ==
  /\ input.fn = "hookName" /\ output = NoOutput
  /\ output' = [kind |-> "names",
                methods |-> [i \in 1..2 |-> toCamelCase(input.names[i])],
                hooks |-> [i \in 1..2 |->
                             hookName([name |-> input.names[i]], input.contractName)]]
  /\ UNCHANGED <<input, genVars, runVars, cmdVars, walletVars, pluginVars, pollVars, loadVars>>

\* One run of the query function of useAccount
UseAccount ==
  /\ input.fn = "useAccount" /\ output = NoOutput
  /\ output' = useAccountQueryFn(input.env)
  /\ UNCHANGED <<input, genVars, runVars, cmdVars, walletVars, pluginVars, pollVars, loadVars>>

\* filterByOptions(items, options), and the filter applied to its own result
FilterByOptions ==
  /\ input.fn = "filterByOptions" /\ output = NoOutput
  /\ LET first == filterByOptions(input.items, input.include, input.exclude)
     IN  output' = IF first.kind = "threw" THEN first
                   ELSE [kind |-> "value", value |-> first.value,
                         again |-> filterByOptions(first.value, input.include, input.exclude)]
  /\ UNCHANGED <<input, genVars, runVars, cmdVars, walletVars, pluginVars, pollVars, loadVars>>

PureNext ==
  \/ GenerateGenericHooks \/ ToCamelCase \/ MapClarityTypeToTS \/ NameHooks
  \/ UseAccount \/ FilterByOptions

SpecPure == PureInit /\ [][PureNext]_vars

\* C13: generateGenericHooks emits exactly the catalog hooks named in the
\* inclusion list, in the list's order, and nothing for a name outside the
\* catalog; without an inclusion list it emits the whole catalog.
C13_IncludeListFiltersCatalog ==
  input.fn = "generateGenericHooks" /\ output # NoOutput =>
    LET inCatalog(n) == \E i \in 1..Len(GENERIC_HOOKS) : GENERIC_HOOKS[i] = n
    IN  output.value = IF input.given THEN SelectSeq(input.includeHooks, inCatalog)
                       ELSE GENERIC_HOOKS

C13_Witness ==
  /\ input.fn = "generateGenericHooks" /\ input.given
  /\ input.includeHooks = <<"useBalance", "useContract">>
  /\ output = Value(<<"useContract">>)

\* C17 (as stated): toCamelCase replaces every hyphen-plus-character pair,
\* whatever the character, so its result contains no hyphen that is
\* followed by a character.
C17_NoHyphenBeforeCharacter ==
  input.fn = "toCamelCase" /\ output # NoOutput =>
    \A i \in 1..(Len(output.value) - 1) : output.value[i] # "-"

\* The ClarityType variant a description denotes
ClarityTypeOf(clarityType) ==
  CASE clarityType.form = "other" -> "unrecognized"
    [] clarityType.key \in {"uint128", "int128", "bool", "principal", "optional",
                            "response", "tuple", "list"} -> clarityType.key
    [] clarityType.key \in {"string-ascii", "string-utf8"} -> "string"
    [] clarityType.key \in {"buff", "buffer"} /\ clarityType.form = "record" -> "buffer"
    [] OTHER -> "unrecognized"

RECURSIVE mapType(_)
\* The target type of the mapping table
mapType(clarityType) ==
  LET variant == ClarityTypeOf(clarityType) IN
  CASE variant \in {"uint128", "int128"} -> "bigint"
    [] variant = "bool"                  -> "boolean"
    [] variant = "principal"             -> "string"
    [] variant = "string"                -> "string"
    [] variant = "buffer"                -> "Uint8Array | string | { type, value }"
    [] variant = "optional"              -> mapType(clarityType.inner) \o " | null"
    [] variant \in {"response", "tuple"} -> "any"
    [] variant = "list"                  -> "any[]"
    [] OTHER                             -> "any"

\* C18 (as stated): for every type description, nested or not, the hook
\* emitter's type mapper returns the target type of the mapping table, and
\* the opaque type for a shape it does not recognize.
C18_MapperFollowsTable ==
  input.fn = "mapClarityTypeToTS" /\ output # NoOutput =>
    output.value = mapType(input.clarityType)

\* C20 (as stated): two distinct function names of one contract yield two
\* distinct method names and two distinct hook names.
C20_GeneratedNamesDistinct ==
  input.fn = "hookName" /\ output # NoOutput =>
    /\ output.methods[1] # output.methods[2]
    /\ output.hooks[1] # output.hooks[2]

Matches(item, pattern) ==
  \/ \E i \in 0..(Len(item.name) - Len(pattern)) :
       SubSeq(item.name, i + 1, i + Len(pattern)) = pattern
  \/ /\ pattern # <<"*">>
     /\ \/ pattern[1] = "^" /\ Len(item.name) >= Len(pattern) - 1
           /\ \A j \in 2..Len(pattern) : pattern[j] \in {".", item.name[j - 1]}
        \/ pattern[1] # "^" /\ \E i \in 0..(Len(item.name) - Len(pattern)) :
             \A j \in 1..Len(pattern) : pattern[j] \in {".", item.name[i + j]}

\* The items the filter is to return
Selected(items, include, exclude) ==
  LET Wanted(item) ==
        /\ ~include.present \/ include.patterns = <<>>
           \/ \E k \in 1..Len(include.patterns) : Matches(item, include.patterns[k])
        /\ ~(exclude.present /\ \E k \in 1..Len(exclude.patterns) :
                                  Matches(item, exclude.patterns[k]))
  IN  SelectSeq(items, Wanted)

\* C30: filterByOptions returns, in their original order, exactly the items
\* that match an include pattern (every item when include is absent or
\* empty) and no exclude pattern; an item matching both is excluded; and
\* the filter applied to its own result returns that result.
C30_FilterSelectsAndIsIdempotent ==
  input.fn = "filterByOptions" /\ output # NoOutput /\ output.kind = "value" =>
    /\ output.value = Selected(input.items, input.include, input.exclude)
    /\ output.again = [kind |-> "value", value |-> output.value]

C30_Witness ==
  /\ input.fn = "filterByOptions" /\ output # NoOutput /\ output.kind = "value"
  /\ input.include.present /\ input.exclude.present
  /\ \E i \in 1..Len(input.items) :
       /\ \E k \in 1..Len(input.include.patterns) :
            Matches(input.items[i], input.include.patterns[k])
       /\ \E k \in 1..Len(input.exclude.patterns) :
            Matches(input.items[i], input.exclude.patterns[k])
  /\ Len(output.value) = 1 /\ Len(input.items) = 2

----------------------------------------------------------------------------
(* The wallet approval of the generated mutation hooks: useContract        *)
(* (hooks.ts), the per-function hook that wraps it (hooks.ts) and the      *)
(* per-function hook that opens the wallet itself (unnamed/part_013)       *)

\* Wallet callbacks one prompt may invoke
MaxCallbacks == 2

\* What the wallet hands to onFinish, or request() returns
WalletData == {"txid-1", "txid-2"}

Pending == [state |-> "pending"]

\* resolve(value) and reject(error) of a promise: they settle a pending
\* promise and leave a settled one as it is
Resolve(p, value) == IF p.state = "pending" THEN [state |-> "fulfilled", value |-> value] ELSE p
Reject(p, error)  == IF p.state = "pending" THEN [state |-> "rejected", error |-> error] ELSE p

\* onFinish: (data) => { resolve(data) }
onFinish(p, data) == Resolve(p, data)

\* onCancel, mutated: the cancellation resolves the promise
onCancelResolves(p) == Resolve(p, "undefined")

\* onCancel: () => { reject(new Error('User cancelled transaction')) }
onCancel(p) == Reject(p, "User cancelled transaction")

WalletInit ==
  /\ hookCall = NoHookCall /\ prompt = "none" /\ promise = NoPromise
  /\ isRequestPending = FALSE
  /\ GenIdle /\ RunIdle /\ CmdIdle /\ PureIdle /\ PluginIdle /\ PollIdle /\ LoadIdle

\* broadcastAsync of useContract, or of the per-function hook that hands its
\* call data to useContract: the mutation function awaits
\* request('stx_callContract', ..)
Broadcast ==
  \E hook \in {"useContract", "writeHook"}, i \in 1..PoolSize :
    /\ hookCall = NoHookCall
    /\ hookCall' = [hook |-> hook, functionName |-> PoolFn(i, "public").name,
                    phase |-> "request", callbacks |-> 0, data |-> "none",
                    status |-> "pending", requests |-> 1, opens |-> 0]
    /\ promise' = Pending
    /\ UNCHANGED <<prompt, isRequestPending, genVars, runVars, cmdVars, pureVars, pluginVars, pollVars, loadVars>>

\* openContractCall of the useContract that exposes isRequestPending
\* (unnamed/part_014): setIsRequestPending(true), then the function awaits
\* request('stx_callContract', ..)
OpenContractCall ==
  \E i \in 1..PoolSize :
    /\ hookCall = NoHookCall
    /\ hookCall' = [hook |-> "openContractCall", functionName |-> PoolFn(i, "public").name,
                    phase |-> "request", callbacks |-> 0, data |-> "none",
                    status |-> "pending", requests |-> 1, opens |-> 0]
    /\ promise' = Pending
    /\ isRequestPending' = TRUE
    /\ UNCHANGED <<prompt, genVars, runVars, cmdVars, pureVars, pluginVars, pollVars, loadVars>>

\* mutateAsync of the per-function hook that calls openContractCall itself
BroadcastDirect ==
  \E i \in 1..PoolSize :
    /\ hookCall = NoHookCall
    /\ hookCall' = [hook |-> "mutationHook", functionName |-> PoolFn(i, "public").name,
                    phase |-> "prompt", callbacks |-> 0, data |-> "none",
                    status |-> "pending", requests |-> 0, opens |-> 1]
    /\ promise' = Pending
    /\ prompt' = "open"
    /\ UNCHANGED <<isRequestPending, genVars, runVars, cmdVars, pureVars, pluginVars, pollVars, loadVars>>

\* RequestReturns, mutated: the wallet prompt is opened after the request
\* has returned as well
RequestReturnsOpensWallet ==
  \E result \in WalletData :
    /\ hookCall # NoHookCall /\ hookCall.phase = "request"
    /\ hookCall' = [hookCall EXCEPT !.phase = "prompt", !.data = result, !.opens = @ + 1]
    /\ promise' = Resolve(promise, result)
    /\ prompt' = "open"
    /\ isRequestPending' = FALSE
    /\ UNCHANGED <<genVars, runVars, cmdVars, pureVars, pluginVars, pollVars, loadVars>>

\* request('stx_callContract') returns: `return result`; where the hook has
\* the state, `finally { setIsRequestPending(false) }` runs on the way out
RequestReturns ==
  \E result \in WalletData :
    /\ hookCall # NoHookCall /\ hookCall.phase = "request"
    /\ hookCall' = [hookCall EXCEPT !.phase = "returned", !.data = result]
    /\ promise' = Resolve(promise, result)
    /\ isRequestPending' = FALSE
    /\ UNCHANGED <<prompt, genVars, runVars, cmdVars, pureVars, pluginVars, pollVars, loadVars>>

\* request('stx_callContract') throws: the fallback opens the wallet prompt
\* with openContractCall and returns the promise its callbacks settle; the
\* `finally` block runs as soon as that promise has been returned
RequestThrows ==
  /\ hookCall # NoHookCall /\ hookCall.phase = "request"
  /\ hookCall' = [hookCall EXCEPT !.phase = "prompt", !.opens = @ + 1]
  /\ prompt' = "open"
  /\ isRequestPending' = FALSE
  /\ UNCHANGED <<promise, genVars, runVars, cmdVars, pureVars, pluginVars, pollVars, loadVars>>

\* The wallet calls onFinish(data); the prompt keeps its first outcome
WalletFinish ==
  \E data \in WalletData :
    /\ hookCall # NoHookCall /\ hookCall.phase = "prompt"
    /\ hookCall.callbacks < MaxCallbacks
    /\ prompt' = IF prompt = "open" THEN "finished" ELSE prompt
    /\ hookCall' = [hookCall EXCEPT !.callbacks = @ + 1,
                                    !.data = IF prompt = "open" THEN data ELSE @]
    /\ promise' = onFinish(promise, data)
    /\ UNCHANGED <<isRequestPending, genVars, runVars, cmdVars, pureVars, pluginVars, pollVars, loadVars>>

\* The wallet calls onCancel()
WalletCancel ==
  /\ hookCall # NoHookCall /\ hookCall.phase = "prompt"
  /\ hookCall.callbacks < MaxCallbacks
  /\ prompt' = IF prompt = "open" THEN "cancelled" ELSE prompt
  /\ hookCall' = [hookCall EXCEPT !.callbacks = @ + 1]
  /\ promise' = onCancel(promise)
  /\ UNCHANGED <<isRequestPending, genVars, runVars, cmdVars, pureVars, pluginVars, pollVars, loadVars>>

\* The mutation observes its promise: onSuccess(data) and isSuccess after
\* a fulfilment, onError(error) and isError after a rejection
MutationSettles ==
  /\ hookCall # NoHookCall /\ hookCall.status = "pending"
  /\ hookCall.hook # "openContractCall"
  /\ promise.state \in {"fulfilled", "rejected"}
  /\ hookCall' = [hookCall EXCEPT
                    !.status = IF promise.state = "fulfilled" THEN "success" ELSE "error"]
  /\ UNCHANGED <<prompt, promise, isRequestPending, genVars, runVars, cmdVars, pureVars, pluginVars, pollVars, loadVars>>

WalletNext ==
  \/ Broadcast \/ OpenContractCall \/ BroadcastDirect \/ RequestReturns \/ RequestThrows
  \/ WalletFinish \/ WalletCancel \/ MutationSettles

SpecWallet == WalletInit /\ [][WalletNext]_vars

\* C14: once the user has cancelled the wallet prompt the promise is
\* rejected with an error and is never resolved; once the wallet has
\* finished it is resolved with the wallet's data; a settled promise never
\* changes, so it is never settled both ways.
C14_CancelRejectsFinishResolves ==
  /\ [](prompt = "cancelled" =>
          promise.state = "rejected" /\ promise.error = "User cancelled transaction")
  /\ [](prompt = "finished" =>
          promise.state = "fulfilled" /\ promise.value = hookCall.data)
  /\ [](hookCall # NoHookCall =>
          /\ hookCall.status = "success" => promise.state = "fulfilled"
          /\ hookCall.status = "error" => promise.state = "rejected")
  /\ [][promise.state \in {"fulfilled", "rejected"} => promise' = promise]_vars

C14_Witness ==
  /\ hookCall # NoHookCall /\ hookCall.hook = "useContract"
  /\ prompt = "cancelled" /\ hookCall.callbacks = 2
  /\ promise.state = "rejected"

\* The call in progress is a broadcast of useContract, made directly or
\* through a per-function hook that wraps it
IsBroadcast == hookCall # NoHookCall /\ hookCall.hook \in {"useContract", "writeHook"}

\* C23: a broadcast of useContract issues the stx_callContract request
\* first and once; openContractCall is called at most once, in the step in
\* which the request fails, and never after the request has returned; the
\* result is the request's result when it returns and otherwise the data
\* the wallet hands to onFinish.
C23_RequestFirstFallbackOnce ==
  /\ [](IsBroadcast =>
          /\ hookCall.requests = 1 /\ hookCall.opens <= 1
          /\ hookCall.phase = "request" => hookCall.opens = 0 /\ prompt = "none"
          /\ hookCall.phase = "returned" =>
                /\ hookCall.opens = 0 /\ prompt = "none"
                /\ promise = [state |-> "fulfilled", value |-> hookCall.data]
          /\ hookCall.opens = 1 => hookCall.phase = "prompt"
          /\ promise.state = "fulfilled" /\ hookCall.phase = "prompt" =>
                prompt = "finished" /\ promise.value = hookCall.data)
  /\ [][IsBroadcast /\ hookCall'.opens > hookCall.opens =>
          /\ hookCall.phase = "request" /\ hookCall'.phase = "prompt"
          /\ hookCall.opens = 0 /\ promise' = promise /\ promise.state = "pending"]_vars

C23_Witness ==
  /\ IsBroadcast /\ hookCall.hook = "useContract" /\ hookCall.opens = 1
  /\ prompt = "finished" /\ promise.state = "fulfilled"

\* C26 (as stated): isRequestPending is true from the call of the request
\* function until the promise it returned has settled, and false at all
\* other times.
C26_PendingUntilSettled ==
  /\ hookCall = NoHookCall => ~isRequestPending
  /\ hookCall # NoHookCall /\ hookCall.hook = "openContractCall" =>
        (isRequestPending <=> promise.state = "pending")

----------------------------------------------------------------------------
(* The hiro plugin: transformConfig *)

\* Number of contract IDs the plugin is given
MaxIds == 2

\* options.contracts: a non-empty list of contract IDs
IdLists == UNION {SeqsOfLen({IdOn(n) : n \in NetworkNames}, k) : k \in 1..MaxIds}

\* config.contracts: absent, empty, or holding a contract
UserConfigs ==
  { [out |-> "./test.ts", hasContracts |-> FALSE, contracts |-> <<>>],
    [out |-> "./test.ts", hasContracts |-> TRUE, contracts |-> <<>>],
    [out |-> "./test.ts", hasContracts |-> TRUE,
     contracts |-> <<[name |-> <<"e">>, address |-> "existing-address"]>>] }

\* How apiClient.getContractInfo and parseApiResponse end: with an ABI, or
\* with a thrown error of some message and HTTP status (0: no response)
ApiError(message, statusCode) ==
  [ok |-> FALSE, message |-> message, statusCode |-> statusCode]

FetchOutcomes ==
  { [ok |-> TRUE],
    ApiError("Contract not found", 0), ApiError("Not Found", 404),
    ApiError("API: Rate limited, retry later", 0), ApiError("Too Many Requests", 429),
    ApiError("socket hang up", 0), ApiError("", 500) }

\* error.message?.includes(searchString), on the messages above
includes(message, searchString) ==
  CASE searchString = "Contract not found" -> message = "Contract not found"
    [] searchString = "Rate limited"       -> message = "API: Rate limited, retry later"
    [] OTHER                               -> FALSE

\* A ContractFetchResult; `thrown` tells a call that throws instead of
\* returning one
ContractFetchResult(success, contractId, error) ==
  [thrown |-> FALSE, success |-> success, contractId |-> contractId, error |-> error]

\* fetchContractABI, mutated: an error that is neither "not found" nor
\* "rate limited" is thrown again
fetchContractABIRethrows(contractId, outcome) ==
  IF outcome.ok THEN ContractFetchResult(TRUE, contractId, "")
  ELSE IF includes(outcome.message, "Contract not found") \/ outcome.statusCode = 404
       THEN ContractFetchResult(FALSE, contractId, "Contract not found")
       ELSE IF includes(outcome.message, "Rate limited") \/ outcome.statusCode = 429
            THEN ContractFetchResult(FALSE, contractId, "Rate limited")
            ELSE [thrown |-> TRUE, success |-> FALSE, contractId |-> contractId,
                  error |-> outcome.message]

\* fetchContractABI: every error is caught and reported in the result
fetchContractABI(contractId, outcome) ==
  IF outcome.ok THEN ContractFetchResult(TRUE, contractId, "")
  ELSE IF includes(outcome.message, "Contract not found") \/ outcome.statusCode = 404
       THEN ContractFetchResult(FALSE, contractId, "Contract not found")
       ELSE IF includes(outcome.message, "Rate limited") \/ outcome.statusCode = 429
            THEN ContractFetchResult(FALSE, contractId, "Rate limited")
            ELSE ContractFetchResult(FALSE, contractId,
                                     IF outcome.message # "" THEN outcome.message
                                     ELSE "Unknown error")

\* The entry pushed for a fetched contract
FetchedContract(contractId) ==
  [name |-> sanitize(contractId.contractName), address |-> contractId,
   source |-> "hiro-api"]

PluginInit ==
  /\ pluginOptions \in [contracts : IdLists]
  /\ userConfig \in UserConfigs
  /\ pending = pluginOptions.contracts
  /\ fetchedContracts = <<>> /\ fetchResults = <<>> /\ returned = NotReturned
  /\ GenIdle /\ RunIdle /\ CmdIdle /\ PureIdle /\ WalletIdle /\ PollIdle /\ LoadIdle

\* One iteration of `for (const contractId of options.contracts)`: the
\* contract is fetched and, on success, its entry pushed; were
\* fetchContractABI to throw, transformConfig would reject
FetchContract ==
  \E outcome \in FetchOutcomes :
    LET result == fetchContractABI(Head(pending), outcome) IN
    /\ ~returned.done /\ pending # <<>>
    /\ IF result.thrown
       THEN /\ returned' = [done |-> TRUE, rejected |-> TRUE, error |-> result.error]
            /\ UNCHANGED <<pending, fetchedContracts, fetchResults>>
       ELSE /\ fetchResults' = Append(fetchResults, result)
            /\ fetchedContracts' =
                 IF result.success
                 THEN Append(fetchedContracts, FetchedContract(Head(pending)))
                 ELSE fetchedContracts
            /\ pending' = Tail(pending)
            /\ UNCHANGED returned
    /\ UNCHANGED <<pluginOptions, userConfig, genVars, runVars, cmdVars, pureVars, walletVars, pollVars, loadVars>>

\* return { ...config, contracts: [...(config.contracts || []), ...fetchedContracts] }
ReturnConfig ==
  /\ ~returned.done /\ pending = <<>>
  /\ returned' = [done |-> TRUE, rejected |-> FALSE,
                  config |-> [out |-> userConfig.out,
                              contracts |-> userConfig.contracts \o fetchedContracts]]
  /\ UNCHANGED <<pluginOptions, userConfig, pending, fetchedContracts, fetchResults,
                 genVars, runVars, cmdVars, pureVars, walletVars, pollVars, loadVars>>

PluginNext == FetchContract \/ ReturnConfig

SpecPlugin == PluginInit /\ [][PluginNext]_vars

RECURSIVE EntriesOf(_)
\* The entries of the contract IDs whose fetch succeeded, in their order
EntriesOf(results) ==
  IF results = <<>> THEN <<>>
  ELSE (IF Head(results).success THEN <<FetchedContract(Head(results).contractId)>> ELSE <<>>)
       \o EntriesOf(Tail(results))

\* C15: transformConfig never rejects, and it returns the input config with
\* its contracts unchanged and in their order, followed by one entry per
\* contract ID whose fetch succeeded, in the order the IDs were listed; a
\* failed fetch contributes no entry.
C15_ExistingThenFetched ==
  /\ returned.done =>
       /\ ~returned.rejected
       /\ [i \in 1..Len(fetchResults) |-> fetchResults[i].contractId] = pluginOptions.contracts
       /\ returned.config.out = userConfig.out
       /\ returned.config.contracts = userConfig.contracts \o EntriesOf(fetchResults)
  /\ Len(fetchedContracts) = Cardinality({i \in 1..Len(fetchResults) : fetchResults[i].success})

C15_Witness ==
  /\ returned.done /\ ~returned.rejected
  /\ userConfig.contracts # <<>>
  /\ Len(fetchResults) = 2
  /\ ~fetchResults[1].success /\ fetchResults[1].error = "socket hang up"
  /\ fetchResults[2].success
  /\ Len(returned.config.contracts) = 2


----------------------------------------------------------------------------
(* The transaction-confirmation polling of the generated                   *)
(* useWaitForTransaction                                                   *)

\* Polls counted one by one; later polls share the last count
MaxPolls == 3

TxIds == {"0x01", "0x02"}
FinalStatuses == {"success", "abort_by_response", "abort_by_post_condition"}
OtherStatuses == {"pending", "dropped_replace_by_fee"}
TxStatuses == FinalStatuses \cup OtherStatuses

\* What `await fetchTransaction(..)` comes back with
Fetched(status) == [threw |-> FALSE, tx_status |-> status]
FetchThrew == [threw |-> TRUE]

\* poll, mutated: polling gives up with an error once MaxPolls polls have
\* found no final status
pollGivesUp(w, p, fetched) ==
  LET back == [w EXCEPT !.fetching = @ - 1]
  IN  IF fetched.threw
      THEN [waiter |-> [back EXCEPT !.settles = @ + 1], promise |-> Reject(p, "fetch failed")]
      ELSE IF fetched.tx_status = "success"
      THEN [waiter |-> [back EXCEPT !.settles = @ + 1],
            promise |-> Resolve(p, [txId |-> w.txId, tx_status |-> fetched.tx_status])]
      ELSE IF fetched.tx_status \in {"abort_by_response", "abort_by_post_condition"}
      THEN [waiter |-> [back EXCEPT !.settles = @ + 1],
            promise |-> Reject(p, "Transaction failed: " \o fetched.tx_status)]
      ELSE IF w.polls >= MaxPolls
      THEN [waiter |-> [back EXCEPT !.settles = @ + 1], promise |-> Reject(p, "timed out")]
      ELSE [waiter |-> [back EXCEPT !.timers = @ + 1], promise |-> p]

\* poll, mutated: a poll that found the final status success schedules the
\* next poll as well
pollKeepsPolling(w, p, fetched) ==
  LET back == [w EXCEPT !.fetching = @ - 1]
  IN  IF fetched.threw
      THEN [waiter |-> [back EXCEPT !.settles = @ + 1], promise |-> Reject(p, "fetch failed")]
      ELSE IF fetched.tx_status = "success"
      THEN [waiter |-> [back EXCEPT !.settles = @ + 1, !.timers = @ + 1],
            promise |-> Resolve(p, [txId |-> w.txId, tx_status |-> fetched.tx_status])]
      ELSE IF fetched.tx_status \in {"abort_by_response", "abort_by_post_condition"}
      THEN [waiter |-> [back EXCEPT !.settles = @ + 1],
            promise |-> Reject(p, "Transaction failed: " \o fetched.tx_status)]
      ELSE [waiter |-> [back EXCEPT !.timers = @ + 1], promise |-> p]

\* poll, from the point where `await fetchTransaction(..)` has settled:
\* resolve(tx), reject(new Error(..)), reject(error) or setTimeout(poll, 2000).
\* `settles` counts the calls of resolve and reject, `timers` the polls
\* scheduled and not yet started, `fetching` the polls awaiting their fetch.
poll(w, p, fetched) ==
  LET back == [w EXCEPT !.fetching = @ - 1]
  IN  IF fetched.threw
      THEN [waiter |-> [back EXCEPT !.settles = @ + 1], promise |-> Reject(p, "fetch failed")]
      ELSE IF fetched.tx_status = "success"
      THEN [waiter |-> [back EXCEPT !.settles = @ + 1],
            promise |-> Resolve(p, [txId |-> w.txId, tx_status |-> fetched.tx_status])]
      ELSE IF fetched.tx_status \in {"abort_by_response", "abort_by_post_condition"}
      THEN [waiter |-> [back EXCEPT !.settles = @ + 1],
            promise |-> Reject(p, "Transaction failed: " \o fetched.tx_status)]
      ELSE [waiter |-> [back EXCEPT !.timers = @ + 1], promise |-> p]

PollInit ==
  /\ waiter = NoWaiter /\ txStatus \in TxStatuses /\ waitPromise = NoPromise
  /\ GenIdle /\ RunIdle /\ CmdIdle /\ PureIdle /\ WalletIdle /\ PluginIdle /\ LoadIdle

\* mutateAsync(txId): the mutation function creates the promise and calls
\* poll(), which runs up to `await fetchTransaction(..)`
WaitForTransaction ==
  \E txId \in TxIds :
    /\ waiter = NoWaiter
    /\ waiter' = [txId |-> txId, fetching |-> 1, timers |-> 0, polls |-> 1, settles |-> 0]
    /\ waitPromise' = Pending
    /\ UNCHANGED <<txStatus, genVars, runVars, cmdVars, pureVars, walletVars,
                   pluginVars, loadVars>>

\* The chain: a transaction that is not final yet changes its status
TxChanges ==
  \E status \in TxStatuses \ {txStatus} :
    /\ txStatus \in OtherStatuses
    /\ txStatus' = status
    /\ UNCHANGED <<waiter, waitPromise, genVars, runVars, cmdVars, pureVars,
                   walletVars, pluginVars, loadVars>>

\* fetchTransaction returns the transaction and poll goes on
PollFetched ==
  /\ waiter # NoWaiter /\ waiter.fetching > 0
  /\ LET next == poll(waiter, waitPromise, Fetched(txStatus))
     IN  waiter' = next.waiter /\ waitPromise' = next.promise
  /\ UNCHANGED <<txStatus, genVars, runVars, cmdVars, pureVars, walletVars,
                 pluginVars, loadVars>>

\* fetchTransaction throws and poll goes on in its catch block
PollFetchThrows ==
  /\ waiter # NoWaiter /\ waiter.fetching > 0
  /\ LET next == poll(waiter, waitPromise, FetchThrew)
     IN  waiter' = next.waiter /\ waitPromise' = next.promise
  /\ UNCHANGED <<txStatus, genVars, runVars, cmdVars, pureVars, walletVars,
                 pluginVars, loadVars>>

\* A timer set by setTimeout(poll, 2000) fires: poll() runs up to its fetch
PollTimerFires ==
  /\ waiter # NoWaiter /\ waiter.timers > 0
  /\ waiter' = [waiter EXCEPT !.timers = @ - 1, !.fetching = @ + 1,
                              !.polls = IF @ < MaxPolls THEN @ + 1 ELSE @]
  /\ UNCHANGED <<txStatus, waitPromise, genVars, runVars, cmdVars, pureVars,
                 walletVars, pluginVars, loadVars>>

PollNext ==
  \/ WaitForTransaction \/ TxChanges \/ PollFetched \/ PollFetchThrows
  \/ PollTimerFires

SpecPoll == PollInit /\ [][PollNext]_vars

\* Every fetch settles and every timer fires
SpecPollFair ==
  /\ PollInit /\ [][PollNext]_vars
  /\ WF_vars(PollFetched \/ PollFetchThrows) /\ WF_vars(PollTimerFires)

Settled(p) == p.state \in {"fulfilled", "rejected"}

\* C24: a poll step whose fetch has settled does exactly one of: resolve
\* the promise (status success), reject it (an abort status, or the fetch
\* threw), schedule one further poll (any other status); at most one poll
\* is outstanding, resolve and reject are called at most once in all, and
\* no poll is outstanding once the promise has settled.
C24_OneOutcomePerPoll ==
  /\ [](waiter # NoWaiter =>
          /\ waiter.fetching + waiter.timers <= 1
          /\ waiter.settles <= 1
          /\ Settled(waitPromise) <=> waiter.settles = 1
          /\ Settled(waitPromise) => waiter.fetching + waiter.timers = 0)
  /\ [][waiter # NoWaiter /\ waiter'.fetching < waiter.fetching =>
          \/ /\ txStatus = "success"
             /\ waitPromise' = [state |-> "fulfilled",
                                value |-> [txId |-> waiter.txId, tx_status |-> "success"]]
             /\ waiter'.timers = waiter.timers
          \/ /\ waitPromise'.state = "rejected" /\ waitPromise.state = "pending"
             /\ \/ waitPromise'.error = "fetch failed"
                \/ /\ txStatus \in {"abort_by_response", "abort_by_post_condition"}
                   /\ waitPromise'.error = "Transaction failed: " \o txStatus
             /\ waiter'.timers = waiter.timers
          \/ /\ txStatus \in OtherStatuses
             /\ waitPromise' = waitPromise /\ waitPromise.state = "pending"
             /\ waiter'.timers = waiter.timers + 1]_vars

C24_Witness ==
  /\ waiter # NoWaiter /\ waiter.polls >= 2 /\ waitPromise.state = "fulfilled"

\* C25: once the transaction has a final status the promise settles; it
\* settles only in a poll that found a final status or whose fetch threw;
\* and while it is pending a poll stays outstanding, however many polls
\* have run.
C25_SettlesIffFinalOrFetchFails ==
  /\ (waiter # NoWaiter /\ txStatus \in FinalStatuses) ~> Settled(waitPromise)
  /\ [][waitPromise.state = "pending" /\ Settled(waitPromise') =>
          \/ txStatus \in FinalStatuses
          \/ waitPromise' = [state |-> "rejected", error |-> "fetch failed"]]_vars
  /\ [](waiter # NoWaiter /\ waitPromise.state = "pending" =>
          waiter.fetching + waiter.timers = 1)

C25_Witness ==
  /\ waiter # NoWaiter /\ waiter.polls = MaxPolls
  /\ waitPromise.state = "rejected" /\ txStatus = "abort_by_response"


----------------------------------------------------------------------------
(* loadConfig on a TypeScript config file (unnamed/part_008)               *)

\* loadConfig invocations on the one config file
MaxLoaders == 2


\* One invocation: where it stands and what it has imported or thrown
Loader(at, result) == [pc |-> at, result |-> result]

\* await import(fileUrl): a module this process has loaded before comes from
\* the module cache; otherwise the file is read and evaluated. A file that
\* is being written is read empty and has no default export.
importModule(d, cache) ==
  IF cache.shared /\ cache.module # "none" THEN cache.module
  ELSE IF d.mjs = "absent" THEN "ERR_MODULE_NOT_FOUND"
  ELSE IF d.mjs = "empty" THEN "empty module"
  ELSE IF d.mjs = "user" THEN "user module"
  ELSE IF d.ts = "throws" THEN "config threw"
  ELSE "config"

\* The modules import() keeps in the cache: those that were evaluated
Evaluated == {"config", "empty module", "user module"}

\* The config directory before the calls: `ts` is what the config module
\* does when it is evaluated, `mjs` the file at tempPath (the config's path
\* with .ts replaced by .mjs), absent or a file of the user's
LoadInit ==
  /\ disk \in [ts : {"exports config", "throws"}, mjs : {"absent", "user"}]
  /\ before = disk
  /\ \E n \in 1..MaxLoaders : loaders = [p \in 1..n |-> Loader("start", "none")]
  \* the invocations run in one process, or each in a process of its own
  /\ moduleCache \in [shared : BOOLEAN, module : {"none"}]
  /\ GenIdle /\ RunIdle /\ CmdIdle /\ PureIdle /\ WalletIdle /\ PluginIdle /\ PollIdle

\* readFile, transformSync and the start of fs.writeFile(tempPath, ..),
\* which creates the file or truncates the one that is there
LoadOpen ==
  \E p \in DOMAIN loaders :
    /\ loaders[p].pc = "start"
    /\ disk' = [disk EXCEPT !.mjs = "empty"]
    /\ loaders' = [loaders EXCEPT ![p] = Loader("writing", "none")]
    /\ UNCHANGED <<before, moduleCache, genVars, runVars, cmdVars, pureVars,
                   walletVars, pluginVars, pollVars>>

\* `await fs.writeFile(tempPath, result.code)` completes
LoadWrite ==
  \E p \in DOMAIN loaders :
    /\ loaders[p].pc = "writing"
    /\ disk' = [disk EXCEPT !.mjs = "transpiled"]
    /\ loaders' = [loaders EXCEPT ![p] = Loader("written", "none")]
    /\ UNCHANGED <<before, moduleCache, genVars, runVars, cmdVars, pureVars,
                   walletVars, pluginVars, pollVars>>

\* `const module = await import(fileUrl); config = module.default`, or the
\* import throws and control passes to the finally block
LoadImport ==
  \E p \in DOMAIN loaders :
    /\ loaders[p].pc = "written"
    /\ LET module == importModule(disk, moduleCache)
       IN  /\ loaders' = [loaders EXCEPT ![p] = Loader("imported", module)]
           /\ moduleCache' = [moduleCache EXCEPT
                                !.module = IF module \in Evaluated THEN module ELSE @]
    /\ UNCHANGED <<disk, before, genVars, runVars, cmdVars, pureVars,
                   walletVars, pluginVars, pollVars>>

\* finally { await fs.unlink(tempPath).catch(() => {}) }, then loadConfig
\* returns the config or rethrows
LoadUnlink ==
  \E p \in DOMAIN loaders :
    /\ loaders[p].pc = "imported"
    /\ disk' = [disk EXCEPT !.mjs = "absent"]
    /\ loaders' = [loaders EXCEPT ![p] =
                     Loader(IF @.result = "config" THEN "returned" ELSE "thrown", @.result)]
    /\ UNCHANGED <<before, moduleCache, genVars, runVars, cmdVars, pureVars,
                   walletVars, pluginVars, pollVars>>

LoadNext == LoadOpen \/ LoadWrite \/ LoadImport \/ LoadUnlink

SpecLoad == LoadInit /\ [][LoadNext]_vars

Finished(l) == l.pc \in {"returned", "thrown"}

\* C28 (as stated): after one loadConfig call on a TypeScript config,
\* whether it returned or threw, the directory holds the files it held
\* before, unchanged.
C28_FileSystemAsFound ==
  Len(loaders) = 1 /\ Finished(loaders[1]) => disk = before

\* C29 (as stated): two concurrent loadConfig calls on the same valid
\* TypeScript config both return, and return the same configuration.
C29_ConcurrentLoadsSucceed ==
  /\ Len(loaders) = 2 /\ disk.ts = "exports config"
  /\ \A p \in DOMAIN loaders : Finished(loaders[p])
  => \A p \in DOMAIN loaders : loaders[p] = Loader("returned", "config")

====
